---- MODULE Spec2Model ----
(***************************************************************************)
(* EXIF privacy cleaner (exif-cleaner, the variant with the four-level     *)
(* serialization fallback): cleanupExifFromFile as a state machine.        *)
(*                                                                         *)
(* A JavaScript string is a tuple of one-character strings, so that        *)
(* formatExifDate, toLowerCase, endsWith and String.replace are computed   *)
(* on characters.  A tag value is a record [t, v]: t is the JavaScript     *)
(* kind of the value and v its content as a tuple of tokens.               *)
(* piexifjs and libheif-js are external collaborators: a call to them      *)
(* either raises or returns, as the environment chooses; piexif.dump is    *)
(* kept deterministic (a document it rejected once is rejected again) and  *)
(* piexif.remove as well (it is applied to the same data URL twice).       *)
(***************************************************************************)
EXTENDS Integers, Sequences, FiniteSets, TLC

VARIABLES
  file,                 \* the File handed to cleanupExifFromFile
  options,              \* the options object of the call
  now,                  \* what new Date() returns during the call
  pc,                   \* position of the call
  result,               \* the result object under construction / returned
  piexifLoaded,         \* module-level memo of loadPiexif
  dataURL,              \* data URL the encoder is applied to
  exifObj,              \* the document handed to the Full tier
  ifd0,                 \* the object first bound to exifObj['0th']
  exifIfd,              \* the object first bound to exifObj['Exif']
  originalOrientation,  \* orientation cached before any modification
  newDataURL,           \* output of the tier that succeeded
  dumpError,            \* error of the Full tier
  attempts,             \* history: the encode tiers attempted, in order
  batch,                \* the locals of cleanupExifBatch, and its progress calls
  sizing,               \* a call of calculateSize: its arguments and what it returns
  cache,                \* image-resizer.js: the Map from cache keys to results
  webpSupported,        \* image-resizer.js: memo of checkWebPSupport
  resize,               \* the locals of the resizeImage call
  effects,              \* what resizeImage has done outside itself, counted
  history,              \* the resizeImage calls that have returned, in order
  cleaning,             \* a call of cleanExifIfd: its arguments and what it returns
  hook,                 \* useExifCleaner: its closure variables and the object it returned
  parked,               \* the locals of a second call, suspended at an await
  imports               \* history: how many times loadPiexif has started import()

(* the state of image-resizer.js *)
resizer == <<sizing, cache, webpSupported, resize, effects, history>>

(* what a single cleanupExifFromFile call, a batch and the resizer leave alone *)
others == <<cleaning, hook, parked, imports>>

vars == <<file, options, now, pc, result, piexifLoaded, dataURL, exifObj, ifd0,
          exifIfd, originalOrientation, newDataURL, dumpError, attempts, batch,
          resizer, others>>

---------------------------------------------------------------------------
(* Strings used by the program *)

DEFAULT_COPYRIGHT ==
  <<"C","o","p","y","r","i","g","h","t"," ","(","c",")"," ","j","i","x","i","a","o",
    "y","o","n","g","."," ","A","l","l"," ","R","i","g","h","t","s"," ","R","e","s",
    "e","r","v","e","d","."," ","j","i","x","i","a","o","y","o","n","g",".","g","i",
    "t","h","u","b",".","i","o">>

DEFAULT_ARTIST ==
  <<"j","i","x","i","a","o","y","o","n","g"," ","(","j","i","x","i","a","o","y","o",
    "n","g",".","g","i","t","h","u","b",".","i","o",")">>

DEFAULT_OFFSET_TIME == <<"+","0","0",":","0","0">>

MimeJpeg == <<"i","m","a","g","e","/","j","p","e","g">>

MimeJpg == <<"i","m","a","g","e","/","j","p","g">>

MimeHeic == <<"i","m","a","g","e","/","h","e","i","c">>

MimeHeif == <<"i","m","a","g","e","/","h","e","i","f">>

ExtHeic == <<".","h","e","i","c">>

ExtHeif == <<".","h","e","i","f">>

ExtJpg == <<".","j","p","g">>

Midnight == <<" ","0","0",":","0","0",":","0","0">>

DigitChars == <<"0","1","2","3","4","5","6","7","8","9">>

UpperChars ==
  <<"A","B","C","D","E","F","G","H","I","J","K","L","M",
    "N","O","P","Q","R","S","T","U","V","W","X","Y","Z">>

LowerChars ==
  <<"a","b","c","d","e","f","g","h","i","j","k","l","m",
    "n","o","p","q","r","s","t","u","v","w","x","y","z">>

---------------------------------------------------------------------------
(* Tag identifiers *)

Make == 271

Model == 272

Orientation == 274

XResolution == 282

YResolution == 283

ResolutionUnit == 296

Software == 305

DateTime == 306

Artist == 315

HostComputer == 316

YCbCrPositioning == 531

Copyright == 33432

XPComment == 40092

XPAuthor == 40093

FNumber == 33437

ExifVersion == 36864

DateTimeOriginal == 36867

DateTimeDigitized == 36868

OffsetTime == 36880

OffsetTimeOriginal == 36881

OffsetTimeDigitized == 36882

MakerNote == 37500

UserComment == 37510

ColorSpace == 40961

PixelXDimension == 40962

PixelYDimension == 40963

ImageUniqueID == 42016

CameraOwnerName == 42032

BodySerialNumber == 42033

LensMake == 42035

LensModel == 42036

LensSerialNumber == 42037

GPSLatitude == 2

InteroperabilityIndex == 1

(* PRIVACY_TAGS: the tags the module lists as "to be deleted" *)
PRIVACY_TAGS ==
  [ifd0 |-> {Make, Model, Software, HostComputer, XPAuthor, XPComment},
   exif |-> {MakerNote, UserComment, ImageUniqueID, CameraOwnerName,
             BodySerialNumber, LensSerialNumber, LensMake, LensModel}]

IFDNames == {"0th", "Exif", "GPS", "1st", "Interop"}

---------------------------------------------------------------------------
(* JavaScript values *)

Undefined == [t |-> "undefined", v |-> <<>>]

Null == [t |-> "null", v |-> <<>>]

Str(chars) == [t |-> "string", v |-> chars]

Num(n) == [t |-> "number", v |-> <<ToString(n)>>]

NaN == [t |-> "number", v |-> <<"NaN">>]

Infinity == [t |-> "number", v |-> <<"Infinity">>]

Arr(elems) == [t |-> "array", v |-> elems]

(* obj[key]: undefined when the key is absent *)
Get(obj, key) == IF key \in DOMAIN obj THEN obj[key] ELSE Undefined

(* obj[key] = value *)
Put(obj, key, value) ==
  [k \in DOMAIN obj \cup {key} |-> IF k = key THEN value ELSE obj[k]]

EmptyIfd == [k \in {} |-> Undefined]

(* if (value): JavaScript truthiness *)
Truthy(value) ==
  CASE value.t = "undefined" -> FALSE
    [] value.t = "null" -> FALSE
    [] value.t = "string" -> Len(value.v) > 0
    [] value.t = "number" -> value.v \notin {<<"NaN">>, <<"0">>}
    [] OTHER -> TRUE

EmptyExif ==
  [g \in IFDNames |-> EmptyIfd]

---------------------------------------------------------------------------
(* String helpers: String.prototype.toLowerCase, endsWith *)

(* the lower-case letter of each upper-case letter *)
LowerOfUpper ==
  [u \in {UpperChars[i] : i \in 1..Len(UpperChars)} |->
     LowerChars[CHOOSE i \in 1..Len(UpperChars) : UpperChars[i] = u]]

ToLowerChar(c) == IF c \in DOMAIN LowerOfUpper THEN LowerOfUpper[c] ELSE c

ToLowerCase(s) == [i \in 1..Len(s) |-> ToLowerChar(s[i])]

EndsWith(s, suffix) ==
  /\ Len(s) >= Len(suffix)
  /\ SubSeq(s, Len(s) - Len(suffix) + 1, Len(s)) = suffix

IsDigit(c) == \E i \in 1..Len(DigitChars) : DigitChars[i] = c

(* String(n).padStart(2, '0') for 0 <= n <= 99 *)
PadStart2(n) ==
  IF n < 10 THEN <<"0", DigitChars[n + 1]>>
  ELSE <<DigitChars[(n \div 10) + 1], DigitChars[(n % 10) + 1]>>

(* String(n) for a four-digit year *)
YearString(n) ==
  <<DigitChars[(n \div 1000) + 1], DigitChars[((n \div 100) % 10) + 1],
    DigitChars[((n \div 10) % 10) + 1], DigitChars[(n % 10) + 1]>>

---------------------------------------------------------------------------
(* formatExifDate: /^(\d{4}):(\d{2}):(\d{2})/ and the rewritten value *)

MatchesDatePrefix(s) ==
  /\ Len(s) >= 10
  /\ \A i \in {1, 2, 3, 4, 6, 7, 9, 10} : IsDigit(s[i])
  /\ s[5] = ":"
  /\ s[8] = ":"

(* faulty variant: the matched value is written back with its time of day *)
formatExifDateKeepsTime(dateStr) ==
  IF ~Truthy(dateStr) THEN Null
  ELSE IF MatchesDatePrefix(dateStr.v) THEN dateStr ELSE Null

formatExifDate(dateStr) ==
  IF ~Truthy(dateStr) THEN Null
  ELSE IF MatchesDatePrefix(dateStr.v)
       THEN Str(SubSeq(dateStr.v, 1, 4) \o <<":">> \o SubSeq(dateStr.v, 6, 7)
                \o <<":">> \o SubSeq(dateStr.v, 9, 10) \o Midnight)
       ELSE Null

---------------------------------------------------------------------------
(* Format tests *)

isJpegFormat(f) == f.type = MimeJpeg \/ f.type = MimeJpg

(* faulty variant: type and name are compared without lower-casing *)
isHeicFormatCaseSensitive(f) ==
  \/ f.type = MimeHeic
  \/ f.type = MimeHeif
  \/ EndsWith(f.name, ExtHeic)
  \/ EndsWith(f.name, ExtHeif)

isHeicFormat(f) ==
  \/ ToLowerCase(f.type) = MimeHeic
  \/ ToLowerCase(f.type) = MimeHeif
  \/ EndsWith(ToLowerCase(f.name), ExtHeic)
  \/ EndsWith(ToLowerCase(f.name), ExtHeif)

(* file.name.replace(/\.(heic|heif)$/i, '.jpg') *)
HeicNewFileName(name) ==
  IF EndsWith(ToLowerCase(name), ExtHeic) \/ EndsWith(ToLowerCase(name), ExtHeif)
  THEN SubSeq(name, 1, Len(name) - Len(ExtHeic)) \o ExtJpg
  ELSE name

---------------------------------------------------------------------------
(* cleanExifIfd *)

InvalidNumberTokens == {"NaN", "Infinity", "-Infinity"}

InvalidElementTokens == {"undefined", "null"} \cup InvalidNumberTokens

(* the tests after the preserveKeys branch: the value is skipped *)
IsSkippedValue(value) ==
  \/ value.t \in {"undefined", "null"}
  \/ value.t = "number" /\ value.v[1] \in InvalidNumberTokens
  \/ value.t = "array" /\ Len(value.v) = 0
  \/ value.t = "array" /\ \E i \in 1..Len(value.v) : value.v[i] \in InvalidElementTokens

(* faulty variant: the preserveKeys are tested like every other key *)
cleanExifIfdChecksAll(ifd, preserveKeys) ==
  [key \in {k \in DOMAIN ifd : ~IsSkippedValue(ifd[k])} |-> ifd[key]]

cleanExifIfd(ifd, preserveKeys) ==
  LET kept == {key \in DOMAIN ifd :
                 IF key \in preserveKeys
                 THEN ifd[key].t \notin {"undefined", "null"}
                 ELSE ~IsSkippedValue(ifd[key])}
  IN [key \in kept |-> ifd[key]]

ifd0PreserveKeys == {Orientation, XResolution, YResolution, ResolutionUnit, YCbCrPositioning}

exifPreserveKeys == {ColorSpace, PixelXDimension, PixelYDimension}

---------------------------------------------------------------------------
(* Options: destructuring defaults apply to undefined only *)

(* faulty variant: options.copyright is ignored *)
OptCopyrightDefaultOnly(o) == Str(DEFAULT_COPYRIGHT)

OptCopyright(o) == IF o.copyright = Undefined THEN Str(DEFAULT_COPYRIGHT) ELSE o.copyright

OptArtist(o) == IF o.artist = Undefined THEN Str(DEFAULT_ARTIST) ELSE o.artist

OptOffsetTime(o) == IF o.offsetTime = Undefined THEN Str(DEFAULT_OFFSET_TIME) ELSE o.offsetTime

---------------------------------------------------------------------------
(* Report entries: f is the fixed text, v the interpolated value *)

Entry(f, v) == [f |-> f, v |-> v]

NoteHeicConverted == Entry("HEIC/HEIF converted to JPEG (all original metadata removed)", <<>>)

NoteGps == Entry("GPS (entire block)", <<>>)

NoteThumbnail == Entry("Thumbnail", <<>>)

NoteMinimal == Entry("Some EXIF tags could not be preserved (display-related tags kept)", <<>>)

NoteSafeRebuild ==
  Entry("All EXIF stripped and rebuilt with minimal safe values (Orientation preserved)", <<>>)

NoteBareStrip == Entry("All EXIF completely stripped (no new EXIF added)", <<>>)

---------------------------------------------------------------------------
(* The redaction transform of cleanupExifFromFile *)

(* the tags deleted from IFD0, in the order of the code *)
Ifd0Removals ==
  <<[tag |-> Make, label |-> "Make", withValue |-> TRUE],
    [tag |-> Model, label |-> "Model", withValue |-> TRUE],
    [tag |-> Software, label |-> "Software", withValue |-> TRUE],
    [tag |-> HostComputer, label |-> "HostComputer", withValue |-> TRUE]>>

(* the tags deleted from the Exif IFD, in the order of the code *)
ExifRemovals ==
  <<[tag |-> MakerNote, label |-> "MakerNote (Apple privacy data)", withValue |-> FALSE],
    [tag |-> UserComment, label |-> "UserComment", withValue |-> FALSE],
    [tag |-> ImageUniqueID, label |-> "ImageUniqueID", withValue |-> TRUE],
    [tag |-> CameraOwnerName, label |-> "CameraOwnerName", withValue |-> TRUE],
    [tag |-> BodySerialNumber, label |-> "BodySerialNumber", withValue |-> FALSE],
    [tag |-> LensMake, label |-> "LensMake", withValue |-> TRUE],
    [tag |-> LensModel, label |-> "LensModel", withValue |-> TRUE],
    [tag |-> LensSerialNumber, label |-> "LensSerialNumber", withValue |-> FALSE]>>

RemovalTags(removals) == {removals[i].tag : i \in 1..Len(removals)}

(* if (ifd[tag] !== undefined) delete ifd[tag], for each listed tag *)
RemoveListed(ifd, removals) ==
  [k \in {key \in DOMAIN ifd : ~(key \in RemovalTags(removals) /\ ifd[key] # Undefined)}
     |-> ifd[k]]

RemovalEntry(ifd, r) == Entry(r.label, IF r.withValue THEN ifd[r.tag].v ELSE <<>>)

(* the removedFields entries pushed while deleting the listed tags *)
RemovalReport(ifd, removals) ==
  LET present == SelectSeq(removals, LAMBDA r : Get(ifd, r.tag) # Undefined)
  IN [i \in 1..Len(present) |-> RemovalEntry(ifd, present[i])]

(* section 1: if the GPS block has keys, replace it by {} *)
RemoveGps(doc) ==
  IF doc["GPS"] # EmptyIfd THEN [doc EXCEPT !["GPS"] = EmptyIfd] ELSE doc

(* section 4: if the thumbnail block has keys, replace it by {} *)
RemoveThumbnail(doc) ==
  IF doc["1st"] # EmptyIfd THEN [doc EXCEPT !["1st"] = EmptyIfd] ELSE doc

(* const d = ifd[tag]; if (d) { const c = formatExifDate(d); if (c) ifd[tag] = c } *)
RewriteDate(ifd, tag) ==
  IF Truthy(Get(ifd, tag)) /\ Truthy(formatExifDate(Get(ifd, tag)))
  THEN Put(ifd, tag, formatExifDate(Get(ifd, tag)))
  ELSE ifd

(* the orientation read before any modification *)
ReadOrientation(ifd) == Get(ifd, Orientation)

(* ifd0 after sections 2, 5 and the DateTime part of 6 *)
RedactIfd0(ifd, copyright, artist) ==
  RewriteDate(Put(Put(RemoveListed(ifd, Ifd0Removals), Copyright, copyright),
                  Artist, artist),
              DateTime)

(* faulty variant: only OffsetTimeOriginal is set *)
RedactExifIfdOneOffset(ifd, offsetTime) ==
  Put(RewriteDate(RemoveListed(ifd, ExifRemovals), DateTimeOriginal),
      OffsetTimeOriginal, offsetTime)

(* exifIfd after sections 3 and 6 *)
RedactExifIfd(ifd, offsetTime) ==
  Put(Put(Put(RewriteDate(RemoveListed(ifd, ExifRemovals), DateTimeOriginal),
              OffsetTimeOriginal, offsetTime),
          OffsetTimeDigitized, offsetTime),
      OffsetTime, offsetTime)

(* removedFields after sections 1 to 4 *)
RedactRemovedFields(doc) ==
  (IF doc["GPS"] # EmptyIfd THEN <<NoteGps>> ELSE <<>>)
    \o RemovalReport(doc["0th"], Ifd0Removals)
    \o RemovalReport(doc["Exif"], ExifRemovals)
    \o (IF doc["1st"] # EmptyIfd THEN <<NoteThumbnail>> ELSE <<>>)

(* addedFields after sections 5 and 6 *)
RedactAddedFields(doc, copyright, artist, offsetTime) ==
  <<Entry("Copyright", copyright.v), Entry("Artist", artist.v)>>
    \o (IF Truthy(Get(doc["Exif"], DateTimeOriginal))
           /\ Truthy(formatExifDate(Get(doc["Exif"], DateTimeOriginal)))
        THEN <<Entry("DateTimeOriginal", formatExifDate(Get(doc["Exif"], DateTimeOriginal)).v)>>
        ELSE <<>>)
    \o <<Entry("OffsetTimeOriginal", offsetTime.v)>>

(* faulty variant: the cached orientation is not written back *)
RestoreOrientationOmitted(ifd, orientation) == ifd

(* if (originalOrientation !== undefined && !== null) ifd[Orientation] = it *)
RestoreOrientation(ifd, orientation) ==
  IF orientation # Undefined /\ orientation # Null
  THEN Put(ifd, Orientation, orientation)
  ELSE ifd

(* faulty variant: the Interop group is emptied like the GPS group *)
FullExifWithoutInterop(doc, redactedIfd0, redactedExifIfd, orientation) ==
  [g \in IFDNames |->
     CASE g = "0th" -> RestoreOrientation(cleanExifIfd(redactedIfd0, ifd0PreserveKeys),
                                          orientation)
       [] g = "Exif" -> cleanExifIfd(redactedExifIfd, exifPreserveKeys)
       [] OTHER -> EmptyIfd]

(* section 7: the document handed to the Full tier *)
FullExif(doc, redactedIfd0, redactedExifIfd, orientation) ==
  [g \in IFDNames |->
     CASE g = "0th" -> RestoreOrientation(cleanExifIfd(redactedIfd0, ifd0PreserveKeys),
                                          orientation)
       [] g = "Exif" -> cleanExifIfd(redactedExifIfd, exifPreserveKeys)
       [] g = "GPS" -> cleanExifIfd(RemoveGps(doc)["GPS"], {})
       [] g = "1st" -> cleanExifIfd(RemoveThumbnail(doc)["1st"], {})
       [] OTHER -> cleanExifIfd(doc["Interop"], {})]

(* copy obj[key] into target when it is !== undefined *)
CopyIfDefined(target, obj, key) ==
  IF Get(obj, key) # Undefined THEN Put(target, key, Get(obj, key)) ELSE target

(* copy obj[key] into target when it is truthy *)
CopyIfTruthy(target, obj, key) ==
  IF Truthy(Get(obj, key)) THEN Put(target, key, Get(obj, key)) ELSE target

(* minimalExif['0th'] *)
MinimalIfd0(redactedIfd0, copyright, artist) ==
  CopyIfTruthy(
    Put(Put(
      CopyIfDefined(CopyIfDefined(CopyIfDefined(CopyIfDefined(CopyIfDefined(
        EmptyIfd, redactedIfd0, Orientation), redactedIfd0, XResolution),
        redactedIfd0, YResolution), redactedIfd0, ResolutionUnit),
        redactedIfd0, YCbCrPositioning),
      Copyright, copyright), Artist, artist),
    redactedIfd0, DateTime)

(* minimalExif['Exif'] *)
MinimalExifIfd(redactedExifIfd, offsetTime) ==
  Put(Put(Put(
    CopyIfTruthy(
      CopyIfDefined(CopyIfDefined(CopyIfDefined(
        EmptyIfd, redactedExifIfd, ColorSpace), redactedExifIfd, PixelXDimension),
        redactedExifIfd, PixelYDimension),
      redactedExifIfd, DateTimeOriginal),
    OffsetTimeOriginal, offsetTime), OffsetTimeDigitized, offsetTime),
    OffsetTime, offsetTime)

(* the document handed to the Minimal tier *)
MinimalExif(redactedIfd0, redactedExifIfd, copyright, artist, offsetTime) ==
  [g \in IFDNames |->
     CASE g = "0th" -> MinimalIfd0(redactedIfd0, copyright, artist)
       [] g = "Exif" -> MinimalExifIfd(redactedExifIfd, offsetTime)
       [] OTHER -> EmptyIfd]

(* faulty variant: the safe document carries no orientation *)
SafeExifWithoutOrientation(copyright, artist, orientation) ==
  [g \in IFDNames |->
     IF g = "0th"
     THEN Put(Put(EmptyIfd, Copyright, copyright), Artist, artist)
     ELSE EmptyIfd]

(* the document handed to the Safe-rebuild tier *)
SafeExif(copyright, artist, orientation) ==
  [g \in IFDNames |->
     IF g = "0th"
     THEN RestoreOrientation(Put(Put(EmptyIfd, Copyright, copyright), Artist, artist),
                             orientation)
     ELSE EmptyIfd]

(* faulty variant: getMonth() is used as it is, without the + 1 *)
HeicDateStrZeroBasedMonth(date) ==
  YearString(date.year) \o <<":">> \o PadStart2(date.month) \o <<":">>
    \o PadStart2(date.day) \o Midnight

(* HEIC path: `${year}:${month}:${day} 00:00:00` of new Date() *)
HeicDateStr(date) ==
  YearString(date.year) \o <<":">> \o PadStart2(date.month + 1) \o <<":">>
    \o PadStart2(date.day) \o Midnight

(* HEIC path: the freshly built document *)
HeicExif(copyright, artist, dateStr, offsetTime) ==
  [g \in IFDNames |->
     CASE g = "0th" ->
            Put(Put(Put(EmptyIfd, Copyright, copyright), Artist, artist),
                DateTime, Str(dateStr))
       [] g = "Exif" ->
            Put(Put(Put(Put(EmptyIfd, DateTimeOriginal, Str(dateStr)),
                        OffsetTimeOriginal, offsetTime),
                    OffsetTimeDigitized, offsetTime),
                OffsetTime, offsetTime)
       [] OTHER -> EmptyIfd]

(* HEIC path: addedFields *)
HeicAddedFields(copyright, artist, dateStr, offsetTime) ==
  <<Entry("Copyright", copyright.v), Entry("Artist", artist.v),
    Entry("DateTimeOriginal", dateStr), Entry("OffsetTimeOriginal", offsetTime.v)>>

---------------------------------------------------------------------------
(* Files and the codec's effect on a data URL *)

(* image data: its format, its pixels, and the metadata piexif.load reads *)
Data(fmt, pixels, parseable, exif) ==
  [fmt |-> fmt, pixels |-> pixels, parseable |-> parseable,
   hasExif |-> exif # EmptyExif, exif |-> exif]

NoData == Data("none", 0, FALSE, EmptyExif)

TagCount(exif) ==
  Cardinality(DOMAIN exif["0th"]) + Cardinality(DOMAIN exif["Exif"])
    + Cardinality(DOMAIN exif["GPS"]) + Cardinality(DOMAIN exif["1st"])
    + Cardinality(DOMAIN exif["Interop"])

(* blob.size: grows with the pixel data and with the number of tags *)
SizeOf(data) == data.pixels + TagCount(data.exif)

File(name, type, data) ==
  [null |-> FALSE, name |-> name, type |-> type, data |-> data, size |-> SizeOf(data)]

NullFile == [null |-> TRUE, name |-> <<>>, type |-> <<>>, data |-> NoData, size |-> 0]

(* piexif.insert(piexif.dump(exif), data) *)
Insert(exif, data) == [data EXCEPT !.hasExif = TRUE, !.exif = exif]

(* piexif.remove(data) *)
Remove(data) == [data EXCEPT !.hasExif = FALSE, !.exif = EmptyExif]

(* the JPEG data URL convertHeicToJpeg returns: new pixels, no metadata *)
HeicToJpeg(data) == Data("jpeg", data.pixels + 1, TRUE, EmptyExif)

---------------------------------------------------------------------------
(* Inputs *)

DateValid == <<"2","0","2","3",":","0","5",":","1","4"," ","1","3",":","4","5",":","2","2">>

DateDashed == <<"2","0","2","3","-","0","5","-","1","4"," ","1","3",":","4","5",":","2","2">>

DateMalformed == <<"n","o","t","-","a","-","d","a","t","e">>

OffsetPlus8 == <<"+","0","8",":","0","0">>

CustomCopyright == <<"M","y"," ","C","o","p","y","r","i","g","h","t">>

CustomArtist == <<"M","e">>

NamePhotoJpg == <<"p","h","o","t","o",".","j","p","g">>

NameImgHeic == <<"I","M","G","_","1",".","H","E","I","C">>

NameShotHeif == <<"s","h","o","t",".","h","e","i","f">>

NameNoExt == <<"i","m","a","g","e">>

NamePicPng == <<"p","i","c",".","p","n","g">>

MimePng == <<"i","m","a","g","e","/","p","n","g">>

MimeHeicUpper == <<"I","M","A","G","E","/","H","E","I","C">>

SampleText == Str(<<"x">>)

(* the orientation values of TIFF/EXIF *)
OrientationValues == 1..8

Merge(f, g) == [k \in DOMAIN f \cup DOMAIN g |-> IF k \in DOMAIN f THEN f[k] ELSE g[k]]

Const(keys, value) == [k \in keys |-> value]

(* the orientation tag of IFD0: absent, or one of the eight values *)
InputOrientation == {EmptyIfd} \cup {Put(EmptyIfd, Orientation, Num(o)) : o \in OrientationValues}

(* the tags PRIVACY_TAGS lists, in IFD0 and in the Exif IFD *)
InputPrivacy ==
  {[ifd0 |-> EmptyIfd, exif |-> EmptyIfd],
   [ifd0 |-> Const({Make, Model, Software, HostComputer}, SampleText), exif |-> EmptyIfd],
   [ifd0 |-> Const({XPAuthor, XPComment}, SampleText), exif |-> EmptyIfd],
   [ifd0 |-> EmptyIfd,
    exif |-> Const({MakerNote, UserComment, ImageUniqueID, CameraOwnerName,
                    BodySerialNumber, LensMake, LensModel, LensSerialNumber}, SampleText)]}

DatesValid ==
  [dt |-> Put(EmptyIfd, DateTime, Str(DateValid)),
   dto |-> Put(EmptyIfd, DateTimeOriginal, Str(DateValid))]

(* DateTime of IFD0 and DateTimeOriginal of the Exif IFD *)
InputDates ==
  {[dt |-> EmptyIfd, dto |-> EmptyIfd],
   DatesValid,
   [dt |-> Put(EmptyIfd, DateTime, Str(DateMalformed)),
    dto |-> Put(EmptyIfd, DateTimeOriginal, Str(DateDashed))],
   [dt |-> Put(EmptyIfd, DateTime, Str(SubSeq(DateValid, 1, 10))),
    dto |-> Put(EmptyIfd, DateTimeOriginal, Str(<<>>))]}

(* display and shooting tags, valid or not *)
InputDisplay ==
  {[ifd0 |-> EmptyIfd, exif |-> EmptyIfd],
   [ifd0 |-> Merge(Const({XResolution, YResolution}, Arr(<<"72", "1">>)),
                   Const({ResolutionUnit, YCbCrPositioning}, Num(2))),
    exif |-> Merge(Const({ColorSpace, PixelXDimension, PixelYDimension}, Num(1)),
                   Merge(Put(EmptyIfd, FNumber, Arr(<<"28", "10">>)),
                         Merge(Put(EmptyIfd, OffsetTimeOriginal, Str(OffsetPlus8)),
                               Merge(Put(EmptyIfd, ExifVersion, Str(<<"0", "2", "3", "2">>)),
                                     Put(EmptyIfd, DateTimeDigitized, Str(DateValid))))))],
   [ifd0 |-> Put(EmptyIfd, XResolution, NaN),
    exif |-> Merge(Put(EmptyIfd, FNumber, Arr(<<"NaN", "10">>)),
                   Merge(Put(EmptyIfd, ExifVersion, Arr(<<>>)),
                         Put(EmptyIfd, DateTimeDigitized, Infinity)))]}

NoBlocks == [gps |-> EmptyIfd, first |-> EmptyIfd, interop |-> EmptyIfd]

(* the GPS, thumbnail and interoperability blocks *)
InputBlocks ==
  {NoBlocks,
   [gps |-> Put(EmptyIfd, GPSLatitude, Arr(<<"31", "14", "0">>)),
    first |-> EmptyIfd, interop |-> EmptyIfd],
   [gps |-> Put(EmptyIfd, GPSLatitude, Arr(<<"31", "14", "0">>)),
    first |-> Put(EmptyIfd, Orientation, Num(1)),
    interop |-> Put(EmptyIfd, InteroperabilityIndex, SampleText)]}

InputExif(o, p, d, disp, b) ==
  [g \in IFDNames |->
     CASE g = "0th" -> Merge(o, Merge(p.ifd0, Merge(d.dt, disp.ifd0)))
       [] g = "Exif" -> Merge(p.exif, Merge(d.dto, disp.exif))
       [] g = "GPS" -> b.gps
       [] g = "1st" -> b.first
       [] OTHER -> b.interop]

(* the documents piexif.load returns for the input JPEGs: every combination  *)
(* of the privacy, date, display and block choices without orientation and   *)
(* with orientation 6, and every orientation value with every display choice *)
InputExifs ==
  {InputExif(o, p, d, disp, b) :
     o \in {EmptyIfd, Put(EmptyIfd, Orientation, Num(6))}, p \in InputPrivacy,
     d \in InputDates, disp \in InputDisplay, b \in InputBlocks}
  \cup
  {InputExif(o, p, DatesValid, disp, NoBlocks) :
     o \in InputOrientation, p \in InputPrivacy, disp \in InputDisplay}

JpegFiles ==
  {File(NamePhotoJpg, MimeJpeg, Data("jpeg", 1000, TRUE, e)) : e \in InputExifs}
    \cup {File(NamePhotoJpg, MimeJpeg, Data("jpeg", 1000, FALSE, EmptyExif)),
          File(NamePhotoJpg, MimeJpg, Data("jpeg", 1000, FALSE, EmptyExif))}

NamedFiles ==
  {File(n, t, Data("heic", 2000, FALSE, EmptyExif)) :
     n \in {NameImgHeic, NameShotHeif, NameNoExt, NamePhotoJpg},
     t \in {MimeHeic, MimeHeif, MimeHeicUpper, MimeJpeg, <<>>}}

OtherFiles == {File(NamePicPng, MimePng, Data("png", 500, FALSE, EmptyExif))}

InputFiles == JpegFiles \cup NamedFiles \cup OtherFiles

InputOptions ==
  [copyright : {Undefined, Str(CustomCopyright)},
   artist : {Undefined, Str(CustomArtist)},
   offsetTime : {Undefined, Str(OffsetPlus8)}]

InputNow == {[year |-> 2026, month |-> 10, day |-> 1], [year |-> 2025, month |-> 0, day |-> 31]}

---------------------------------------------------------------------------
(* The call cleanupExifFromFile(file, options) *)

NoError == [null |-> TRUE, msg |-> ""]

Err(msg) == [null |-> FALSE, msg |-> msg]

(* the result object built at the start of a call *)
NewResult(f) ==
  [success |-> FALSE, file |-> NullFile, blob |-> NullFile, originalSize |-> f.size,
   cleanedSize |-> 0, error |-> NoError, removedFields |-> <<>>, addedFields |-> <<>>,
   convertedFrom |-> ""]

(* the values the collaborators raise: Error objects, which carry a message,
   and the ProgressEvent a FileReader rejects with, which has none *)
ErrorObject(message) == [kind |-> "Error", message |-> message]

ProgressEvent == [kind |-> "ProgressEvent", message |-> ""]

(* String(error) *)
StringOf(error) ==
  IF error.kind = "ProgressEvent" THEN "[object ProgressEvent]"
  ELSE IF error.message = "" THEN "Error"
  ELSE "Error: " \o error.message

(* faulty variant: the message is taken without the String(error) fallback *)
ErrorMessageOnly(error) == error.message

(* error.message || String(error) *)
ErrorMessage(error) == IF error.message # "" THEN error.message ELSE StringOf(error)

HeicDecodeErrors ==
  {ErrorObject("cannot decode HEIC/HEIF file"), ErrorObject("HEIC image rendering failed")}

PiexifLoadError == ErrorObject("piexifjs module failed to load")

EncodeError == ErrorObject("piexif.dump or piexif.insert raised")

(* faulty variant: the catch block records the error but not the input file *)
CatchResultWithoutFile(r, f, error) ==
  [r EXCEPT !.error = Err(ErrorMessage(error)), !.cleanedSize = f.size]

(* the outer catch block applied to the result object r *)
CatchResult(r, f, error) ==
  [r EXCEPT !.error = Err(ErrorMessage(error)), !.file = f, !.blob = f,
            !.cleanedSize = f.size]

(* faulty variant: no catch block, the exception leaves the call *)
CaughtNowhere(error) ==
  /\ result' = result
  /\ pc' = "rejected"

(* an exception reaches the outer catch block *)
Caught(error) ==
  /\ result' = CatchResult(result, file, error)
  /\ pc' = "done"

(* the branches that return the input file as a success *)
ReturnOriginal(msg) ==
  /\ result' = [result EXCEPT !.success = TRUE, !.file = file, !.blob = file,
                              !.cleanedSize = file.size, !.error = Err(msg)]
  /\ pc' = "done"

(* new Blob / new File around a data URL *)
BlobOf(data) == File(<<>>, MimeJpeg, data)

(* one try block of the fallback chain: the document it built, the data URL *)
(* it handed to piexif.insert (NoData when it made no such call), and how   *)
(* it ended                                                                 *)
Attempt(tier, inserted, doc, target, outcome) ==
  [tier |-> tier, inserted |-> inserted, doc |-> doc, target |-> target,
   outcome |-> outcome]

(* calculateSize before it is called *)
NoSizing ==
  [pc |-> "none", originalWidth |-> 0, originalHeight |-> 0,
   maxWidth |-> [n |-> 0, d |-> 1], maxHeight |-> [n |-> 0, d |-> 1],
   width |-> 0, height |-> 0, scaled |-> FALSE]

(* a Blob: where its bytes come from, its MIME type and its size *)
Blob(origin, type, size) == [null |-> FALSE, origin |-> origin, type |-> type, size |-> size]

NullBlob == [null |-> TRUE, origin |-> "", type |-> "", size |-> 0]

NullUrl == [null |-> TRUE, id |-> 0]

DEFAULT_OPTIONS ==
  [maxWidth |-> [n |-> 0, d |-> 1], maxHeight |-> [n |-> 0, d |-> 1], format |-> "webp",
   quality |-> [n |-> 4, d |-> 5]]

(* an options argument: the keys it has, and their values *)
Options(given, values) ==
  [given |-> given,
   maxWidth |-> IF "maxWidth" \in given THEN values.maxWidth ELSE DEFAULT_OPTIONS.maxWidth,
   maxHeight |-> IF "maxHeight" \in given THEN values.maxHeight ELSE DEFAULT_OPTIONS.maxHeight,
   format |-> IF "format" \in given THEN values.format ELSE DEFAULT_OPTIONS.format,
   quality |-> IF "quality" \in given THEN values.quality ELSE DEFAULT_OPTIONS.quality]

(* the result object resizeImage starts from *)
NewResizeResult(opts) ==
  [success |-> FALSE, blob |-> NullBlob, url |-> NullUrl, originalSize |-> 0,
   compressedSize |-> 0, format |-> opts.format, width |-> 0, height |-> 0,
   fromCache |-> FALSE, error |-> NoError]

(* no resizeImage call made yet *)
NoResize ==
  [pc |-> "idle", url |-> "", options |-> Options({}, DEFAULT_OPTIONS),
   opts |-> DEFAULT_OPTIONS, cacheKey |-> <<>>, result |-> NewResizeResult(DEFAULT_OPTIONS),
   originalBlob |-> NullBlob, outputFormat |-> "", start |-> 0]

NoEffects ==
  [fetch |-> 0, loadImage |-> 0, toBlob |-> 0, createObjectURL |-> 0, revoked |-> {},
   clearCache |-> 0]

(* new Map() *)
EmptyCache == [key \in {} |-> NullBlob]

(* resizeImage has not been called *)
NoResizing ==
  /\ cache = EmptyCache
  /\ webpSupported = "null"
  /\ resize = NoResize
  /\ effects = NoEffects
  /\ history = <<>>

(* image-resizer.js is not in use *)
ResizerIdle == sizing = NoSizing /\ NoResizing

(* cleanExifIfd before it is called *)
NoCleaning ==
  [pc |-> "none", ifd |-> [null |-> TRUE, obj |-> EmptyIfd], preserveKeys |-> {},
   cleaned |-> EmptyIfd]

(* an options object with no key *)
NoOptions == [copyright |-> Undefined, artist |-> Undefined, offsetTime |-> Undefined]

(* no hook has been created *)
NoHook ==
  [created |-> FALSE, defaultOptions |-> NoOptions, isProcessing |-> FALSE,
   error |-> NoError, returned |-> [isProcessing |-> FALSE, error |-> NoError],
   calls |-> 0, inFlight |-> 0, peak |-> 0]

(* no second call *)
NoFrame == [pc |-> "none"]

OthersIdle == cleaning = NoCleaning /\ hook = NoHook /\ parked = NoFrame /\ imports = 0

(* cleanupExifBatch before it is called *)
NoBatch ==
  [pc |-> "none", files |-> <<>>, onProgress |-> FALSE, i |-> 0, results |-> <<>>,
   success |-> 0, failed |-> 0, totalOriginalSize |-> 0, totalCleanedSize |-> 0,
   progress |-> <<>>]

StartCall(f, o) ==
  /\ file = f
  /\ options = o
  /\ now = [year |-> 0, month |-> 0, day |-> 0]
  /\ pc = "start"
  /\ result = NewResult(f)
  /\ dataURL = NoData
  /\ exifObj = EmptyExif
  /\ ifd0 = EmptyIfd
  /\ exifIfd = EmptyIfd
  /\ originalOrientation = Undefined
  /\ newDataURL = NoData
  /\ dumpError = NoError
  /\ attempts = <<>>

(* exif-cleaner.js with no cleanupExifFromFile call made yet *)
NoCall ==
  /\ file = NullFile
  /\ now = [year |-> 0, month |-> 0, day |-> 0]
  /\ pc = "idle"
  /\ result = NewResult(NullFile)
  /\ dataURL = NoData
  /\ exifObj = EmptyExif
  /\ ifd0 = EmptyIfd
  /\ exifIfd = EmptyIfd
  /\ originalOrientation = Undefined
  /\ newDataURL = NoData
  /\ dumpError = NoError
  /\ attempts = <<>>

Init ==
  /\ piexifLoaded = "null"
  /\ batch = NoBatch
  /\ ResizerIdle
  /\ OthersIdle
  /\ \E f \in InputFiles, o \in InputOptions : StartCall(f, o)

locals == <<dataURL, exifObj, ifd0, exifIfd, originalOrientation, newDataURL, dumpError,
            attempts>>

(* if (isHeicFormat(file)): the conversion note is pushed first *)
DetectHeic ==
  /\ pc = "start"
  /\ isHeicFormat(file)
  /\ result' = [result EXCEPT !.removedFields = Append(@, NoteHeicConverted)]
  /\ pc' = "heicConvert"
  /\ UNCHANGED <<others, resizer, batch, file, options, now, piexifLoaded, locals>>

(* faulty variant: the codec is loaded before the format is looked at *)
PassthroughAfterLoad ==
  /\ pc = "start"
  /\ ~isHeicFormat(file)
  /\ ~isJpegFormat(file)
  /\ ReturnOriginal("unsupported format, EXIF processing skipped")
  /\ piexifLoaded' = "resolved"
  /\ UNCHANGED <<others, resizer, batch, file, options, now, locals>>

(* if (!isJpegFormat(file)): other formats are returned as they are *)
Passthrough ==
  /\ pc = "start"
  /\ ~isHeicFormat(file)
  /\ ~isJpegFormat(file)
  /\ ReturnOriginal("unsupported format, EXIF processing skipped")
  /\ UNCHANGED <<others, resizer, batch, file, options, now, piexifLoaded, locals>>

(* faulty variant: the memo is looked at only once the import has settled *)
CallLoadPiexifUnlessSettled ==
  IF piexifLoaded \in {"null", "pending"}
  THEN piexifLoaded' = "pending" /\ imports' = imports + 1
  ELSE UNCHANGED <<piexifLoaded, imports>>

(* loadPiexif() up to its return: the memoized promise if there is one,   *)
(* else import() is started and its promise memoized                      *)
CallLoadPiexif ==
  IF piexifLoaded = "null"
  THEN piexifLoaded' = "pending" /\ imports' = imports + 1
  ELSE UNCHANGED <<piexifLoaded, imports>>

(* a JPEG: the call goes on to loadPiexif() and waits for its promise *)
DetectJpeg ==
  /\ pc = "start"
  /\ ~isHeicFormat(file)
  /\ isJpegFormat(file)
  /\ pc' = "loadPiexif"
  /\ CallLoadPiexif
  /\ UNCHANGED <<cleaning, hook, parked, resizer, batch, file, options, now, result, locals>>

(* await convertHeicToJpeg(file): libheif decodes, or raises *)
HeicConvert ==
  /\ pc = "heicConvert"
  /\ \/ /\ dataURL' = HeicToJpeg(file.data)
        /\ pc' = "heicLoadPiexif"
        /\ CallLoadPiexif
        /\ UNCHANGED result
     \/ /\ \E error \in HeicDecodeErrors : Caught(error)
        /\ UNCHANGED <<dataURL, piexifLoaded, imports>>
  /\ UNCHANGED <<cleaning, hook, parked, resizer, batch, file, options, now, exifObj, ifd0, exifIfd,
                 originalOrientation, newDataURL, dumpError, attempts>>

(* faulty variant: a failed import is forgotten, the next call imports again *)
LoadPiexifForgetsFailure(next) ==
  \E ok \in BOOLEAN :
    /\ piexifLoaded # "null"
    /\ piexifLoaded = "resolved" => ok
    /\ piexifLoaded = "rejected" => ~ok
    /\ piexifLoaded' = IF ok THEN "resolved" ELSE "null"
    /\ IF ok
       THEN pc' = next /\ UNCHANGED result
       ELSE Caught(PiexifLoadError)

(* await loadPiexif(): the memoized promise settles, once, as fulfilled or *)
(* rejected, and the call goes on or lands in the catch block             *)
LoadPiexif(next) ==
  \E ok \in BOOLEAN :
    /\ piexifLoaded # "null"
    /\ piexifLoaded = "resolved" => ok
    /\ piexifLoaded = "rejected" => ~ok
    /\ piexifLoaded' = IF ok THEN "resolved" ELSE "rejected"
    /\ IF ok
       THEN pc' = next /\ UNCHANGED result
       ELSE Caught(PiexifLoadError)

HeicLoadPiexif ==
  /\ pc = "heicLoadPiexif"
  /\ LoadPiexif("heicEncode")
  /\ UNCHANGED <<others, resizer, batch, file, options, now, locals>>

JpegLoadPiexif ==
  /\ pc = "loadPiexif"
  /\ LoadPiexif("readFile")
  /\ UNCHANGED <<others, resizer, batch, file, options, now, locals>>

(* HEIC path: build the document, dump and insert it, wrap the new file *)
HeicEncode ==
  /\ pc = "heicEncode"
  /\ \E date \in InputNow, ok \in BOOLEAN :
       LET doc == HeicExif(OptCopyright(options), OptArtist(options), HeicDateStr(date),
                           OptOffsetTime(options))
           added == HeicAddedFields(OptCopyright(options), OptArtist(options),
                                    HeicDateStr(date), OptOffsetTime(options))
       IN /\ now' = date
          /\ exifObj' = doc
          /\ attempts' = Append(attempts,
                                Attempt("HeicMinimal", TRUE, doc, dataURL,
                                        IF ok THEN "ok" ELSE "encode"))
          /\ IF ok
             THEN /\ newDataURL' = Insert(doc, dataURL)
                  /\ result' = [result EXCEPT
                                  !.addedFields = @ \o added,
                                  !.success = TRUE,
                                  !.file = File(HeicNewFileName(file.name), MimeJpeg,
                                                Insert(doc, dataURL)),
                                  !.blob = BlobOf(Insert(doc, dataURL)),
                                  !.cleanedSize = SizeOf(Insert(doc, dataURL)),
                                  !.convertedFrom = "HEIC/HEIF"]
                  /\ pc' = "done"
             ELSE /\ UNCHANGED newDataURL
                  /\ result' = CatchResult([result EXCEPT !.addedFields = @ \o added],
                                           file, EncodeError)
                  /\ pc' = "done"
  /\ UNCHANGED <<others, resizer, batch, file, options, piexifLoaded, dataURL, ifd0, exifIfd, originalOrientation,
                 dumpError>>

(* await blobToDataURL(file): the FileReader loads, or rejects *)
ReadFile ==
  /\ pc = "readFile"
  /\ \E ok \in BOOLEAN :
       IF ok
       THEN /\ dataURL' = file.data
            /\ pc' = "decode"
            /\ UNCHANGED result
       ELSE /\ Caught(ProgressEvent)
            /\ UNCHANGED dataURL
  /\ UNCHANGED <<others, resizer, batch, file, options, now, piexifLoaded, exifObj, ifd0, exifIfd,
                 originalOrientation, newDataURL, dumpError, attempts>>

(* faulty variant: a piexif.load error is left to the outer catch block *)
DecodeErrorCaught ==
  /\ pc = "decode"
  /\ IF dataURL.parseable
     THEN /\ exifObj' = dataURL.exif
          /\ pc' = "redact"
          /\ UNCHANGED result
     ELSE /\ Caught(ErrorObject("'load' gots invalid file data."))
          /\ UNCHANGED exifObj
  /\ UNCHANGED <<others, resizer, batch, file, options, now, piexifLoaded, dataURL, ifd0, exifIfd,
                 originalOrientation, newDataURL, dumpError, attempts>>

(* exifObj = piexif.load(dataURL): no parseable directory returns the input *)
Decode ==
  /\ pc = "decode"
  /\ IF dataURL.parseable
     THEN /\ exifObj' = dataURL.exif
          /\ pc' = "redact"
          /\ UNCHANGED result
     ELSE /\ ReturnOriginal("cannot parse EXIF data, original file returned")
          /\ UNCHANGED exifObj
  /\ UNCHANGED <<others, resizer, batch, file, options, now, piexifLoaded, dataURL, ifd0, exifIfd,
                 originalOrientation, newDataURL, dumpError, attempts>>

(* sections 1 to 7: the redaction of the decoded document *)
Redact ==
  /\ pc = "redact"
  /\ originalOrientation' = ReadOrientation(exifObj["0th"])
  /\ ifd0' = RedactIfd0(exifObj["0th"], OptCopyright(options), OptArtist(options))
  /\ exifIfd' = RedactExifIfd(exifObj["Exif"], OptOffsetTime(options))
  /\ exifObj' = FullExif(exifObj, ifd0', exifIfd', originalOrientation')
  /\ result' = [result EXCEPT
                  !.removedFields = @ \o RedactRemovedFields(exifObj),
                  !.addedFields = @ \o RedactAddedFields(exifObj, OptCopyright(options),
                                                         OptArtist(options),
                                                         OptOffsetTime(options))]
  /\ pc' = "tier1"
  /\ UNCHANGED <<others, resizer, batch, file, options, now, piexifLoaded, dataURL, newDataURL, dumpError, attempts>>

(* tier 1: dump and insert the redacted document *)
TierFull ==
  /\ pc = "tier1"
  /\ \E ok \in BOOLEAN :
       /\ attempts' = Append(attempts,
                             Attempt("Full", TRUE, exifObj, dataURL,
                                     IF ok THEN "ok" ELSE "encode"))
       /\ IF ok
          THEN /\ newDataURL' = Insert(exifObj, dataURL)
               /\ pc' = "encoded"
               /\ UNCHANGED dumpError
          ELSE /\ dumpError' = Err(ErrorMessage(EncodeError))
               /\ pc' = "tier2"
               /\ UNCHANGED newDataURL
  /\ UNCHANGED <<others, resizer, batch, file, options, now, result, piexifLoaded, dataURL, exifObj, ifd0, exifIfd,
                 originalOrientation>>

(* faulty variant: a failure of tier 2 falls through to tier 4 *)
TierMinimalSkipsSafeRebuild ==
  /\ pc = "tier2"
  /\ LET doc == MinimalExif(ifd0, exifIfd, OptCopyright(options), OptArtist(options),
                            OptOffsetTime(options))
     IN \E ok \in BOOLEAN :
          /\ attempts' = Append(attempts,
                                Attempt("Minimal", TRUE, doc, dataURL,
                                        IF ok THEN "ok" ELSE "encode"))
          /\ IF ok
             THEN /\ newDataURL' = Insert(doc, dataURL)
                  /\ result' = [result EXCEPT !.removedFields = Append(@, NoteMinimal)]
                  /\ pc' = "encoded"
             ELSE /\ pc' = "tier4"
                  /\ UNCHANGED <<newDataURL, result>>
  /\ UNCHANGED <<others, resizer, batch, file, options, now, piexifLoaded, dataURL, exifObj, ifd0, exifIfd,
                 originalOrientation, dumpError>>

(* tier 2: a hand-built document of display tags, attribution and times *)
TierMinimal ==
  /\ pc = "tier2"
  /\ LET doc == MinimalExif(ifd0, exifIfd, OptCopyright(options), OptArtist(options),
                            OptOffsetTime(options))
     IN \E ok \in BOOLEAN :
          /\ doc = attempts[1].doc => ~ok
          /\ attempts' = Append(attempts,
                                Attempt("Minimal", TRUE, doc, dataURL,
                                        IF ok THEN "ok" ELSE "encode"))
          /\ IF ok
             THEN /\ newDataURL' = Insert(doc, dataURL)
                  /\ result' = [result EXCEPT !.removedFields = Append(@, NoteMinimal)]
                  /\ pc' = "encoded"
             ELSE /\ pc' = "tier3"
                  /\ UNCHANGED <<newDataURL, result>>
  /\ UNCHANGED <<others, resizer, batch, file, options, now, piexifLoaded, dataURL, exifObj, ifd0, exifIfd,
                 originalOrientation, dumpError>>

(* faulty variant: the safe document is inserted into the unstripped input *)
TierSafeRebuildKeepsInput ==
  /\ pc = "tier3"
  /\ LET doc == SafeExif(OptCopyright(options), OptArtist(options), originalOrientation)
     IN \E outcome \in {"ok", "remove", "encode"} :
          /\ attempts' = Append(attempts,
                                Attempt("SafeRebuild", outcome # "remove", doc,
                                        IF outcome = "remove" THEN NoData ELSE dataURL,
                                        outcome))
          /\ IF outcome = "ok"
             THEN /\ newDataURL' = Insert(doc, dataURL)
                  /\ result' = [result EXCEPT !.removedFields = Append(@, NoteSafeRebuild)]
                  /\ pc' = "encoded"
             ELSE /\ pc' = "tier4"
                  /\ UNCHANGED <<newDataURL, result>>
  /\ UNCHANGED <<others, resizer, batch, file, options, now, piexifLoaded, dataURL, exifObj, ifd0, exifIfd,
                 originalOrientation, dumpError>>

(* tier 3: remove all EXIF, then insert copyright, artist and orientation *)
TierSafeRebuild ==
  /\ pc = "tier3"
  /\ LET doc == SafeExif(OptCopyright(options), OptArtist(options), originalOrientation)
     IN \E outcome \in {"ok", "remove", "encode"} :
          /\ attempts' = Append(attempts,
                                Attempt("SafeRebuild", outcome # "remove", doc,
                                        IF outcome = "remove" THEN NoData
                                        ELSE Remove(dataURL),
                                        outcome))
          /\ IF outcome = "ok"
             THEN /\ newDataURL' = Insert(doc, Remove(dataURL))
                  /\ result' = [result EXCEPT !.removedFields = Append(@, NoteSafeRebuild)]
                  /\ pc' = "encoded"
             ELSE /\ pc' = "tier4"
                  /\ UNCHANGED <<newDataURL, result>>
  /\ UNCHANGED <<others, resizer, batch, file, options, now, piexifLoaded, dataURL, exifObj, ifd0, exifIfd,
                 originalOrientation, dumpError>>

(* piexif.remove(dataURL) raised in tier 3: it raises again in tier 4 *)
RemoveRaises == attempts[Len(attempts)].outcome = "remove"

(* faulty variant: the note of tier 4 is pushed before piexif.remove is called *)
TierBareStripNotesFirst ==
  /\ pc = "tier4"
  /\ attempts' = Append(attempts,
                        Attempt("BareStrip", FALSE, EmptyExif, NoData,
                                IF RemoveRaises THEN "remove" ELSE "ok"))
  /\ IF ~RemoveRaises
     THEN /\ newDataURL' = Remove(dataURL)
          /\ result' = [result EXCEPT !.removedFields = Append(@, NoteBareStrip)]
          /\ pc' = "encoded"
     ELSE /\ result' = [result EXCEPT
                          !.removedFields = Append(@, NoteBareStrip),
                          !.success = TRUE, !.file = file, !.blob = file,
                          !.cleanedSize = file.size,
                          !.error = Err("EXIF processing failed, original file returned")]
          /\ pc' = "done"
          /\ UNCHANGED newDataURL
  /\ UNCHANGED <<others, resizer, batch, file, options, now, piexifLoaded, dataURL, exifObj, ifd0, exifIfd,
                 originalOrientation, dumpError>>

(* tier 4: remove all EXIF and add nothing; if that raises, return the input *)
TierBareStrip ==
  /\ pc = "tier4"
  /\ attempts' = Append(attempts,
                        Attempt("BareStrip", FALSE, EmptyExif, NoData,
                                IF RemoveRaises THEN "remove" ELSE "ok"))
  /\ IF ~RemoveRaises
     THEN /\ newDataURL' = Remove(dataURL)
          /\ result' = [result EXCEPT !.removedFields = Append(@, NoteBareStrip)]
          /\ pc' = "encoded"
     ELSE /\ result' = [result EXCEPT
                          !.success = TRUE, !.file = file, !.blob = file,
                          !.cleanedSize = file.size,
                          !.error = Err("EXIF processing failed, original file returned")]
          /\ pc' = "done"
          /\ UNCHANGED newDataURL
  /\ UNCHANGED <<others, resizer, batch, file, options, now, piexifLoaded, dataURL, exifObj, ifd0, exifIfd,
                 originalOrientation, dumpError>>

(* faulty variant: cleanedSize is left at the size of the input *)
FinishKeepsInputSize ==
  /\ pc = "encoded"
  /\ result' = [result EXCEPT
                  !.success = TRUE,
                  !.file = File(file.name, file.type, newDataURL),
                  !.blob = BlobOf(newDataURL),
                  !.cleanedSize = file.size]
  /\ pc' = "done"
  /\ UNCHANGED <<others, resizer, batch, file, options, now, piexifLoaded, locals>>

(* dataURLToBlob, new File, result.success = true *)
Finish ==
  /\ pc = "encoded"
  /\ result' = [result EXCEPT
                  !.success = TRUE,
                  !.file = File(file.name, file.type, newDataURL),
                  !.blob = BlobOf(newDataURL),
                  !.cleanedSize = SizeOf(newDataURL)]
  /\ pc' = "done"
  /\ UNCHANGED <<others, resizer, batch, file, options, now, piexifLoaded, locals>>

Next ==
  \/ DetectHeic
  \/ Passthrough
  \/ DetectJpeg
  \/ HeicConvert
  \/ HeicLoadPiexif
  \/ HeicEncode
  \/ JpegLoadPiexif
  \/ ReadFile
  \/ Decode
  \/ Redact
  \/ TierFull
  \/ TierMinimal
  \/ TierSafeRebuild
  \/ TierBareStrip
  \/ Finish

Spec == Init /\ [][Next]_vars

---------------------------------------------------------------------------
(* cleanupExifBatch(files, options, onProgress) *)

MaxBatch == 2

(* one file of each path: a PNG, a JPEG without a readable directory, a JPEG *)
(* with orientation, privacy tags, GPS and thumbnail, and a HEIC             *)
BatchFiles ==
  {File(NamePicPng, MimePng, Data("png", 500, FALSE, EmptyExif)),
   File(NamePhotoJpg, MimeJpeg, Data("jpeg", 1000, FALSE, EmptyExif)),
   File(NamePhotoJpg, MimeJpeg,
        Data("jpeg", 1000, TRUE,
             InputExif(Put(EmptyIfd, Orientation, Num(6)),
                       [ifd0 |-> Put(EmptyIfd, Make, SampleText),
                        exif |-> Put(EmptyIfd, MakerNote, SampleText)],
                       DatesValid,
                       [ifd0 |-> EmptyIfd, exif |-> EmptyIfd],
                       [gps |-> Put(EmptyIfd, GPSLatitude, Arr(<<"31", "14", "0">>)),
                        first |-> Put(EmptyIfd, Orientation, Num(1)),
                        interop |-> EmptyIfd]))),
   File(NameImgHeic, MimeHeic, Data("heic", 2000, FALSE, EmptyExif))}

RECURSIVE SeqsUpTo(_, _)
SeqsUpTo(S, n) ==
  IF n = 0 THEN {<<>>}
  ELSE SeqsUpTo(S, n - 1)
         \cup {Append(q, x) : q \in {r \in SeqsUpTo(S, n - 1) : Len(r) = n - 1}, x \in S}

BatchInputs == SeqsUpTo(BatchFiles, MaxBatch)

BatchOptions == {[copyright |-> Undefined, artist |-> Str(CustomArtist), offsetTime |-> Undefined]}

(* the locals of cleanupExifBatch at its first line *)
NewBatch(files, onProgress) ==
  [pc |-> "loop", files |-> files, onProgress |-> onProgress, i |-> 0, results |-> <<>>,
   success |-> 0, failed |-> 0, totalOriginalSize |-> 0, totalCleanedSize |-> 0,
   progress |-> <<>>]

BatchInit ==
  /\ piexifLoaded = "null"
  /\ ResizerIdle
  /\ OthersIdle
  /\ \E files \in BatchInputs, onProgress \in BOOLEAN : batch = NewBatch(files, onProgress)
  /\ \E o \in BatchOptions : options = o
  /\ NoCall

(* await cleanupExifFromFile(f, options): the call starts with fresh locals *)
BeginCall(f) ==
  /\ file' = f
  /\ now' = [year |-> 0, month |-> 0, day |-> 0]
  /\ pc' = "start"
  /\ result' = NewResult(f)
  /\ dataURL' = NoData
  /\ exifObj' = EmptyExif
  /\ ifd0' = EmptyIfd
  /\ exifIfd' = EmptyIfd
  /\ originalOrientation' = Undefined
  /\ newDataURL' = NoData
  /\ dumpError' = NoError
  /\ attempts' = <<>>
  /\ UNCHANGED <<options, piexifLoaded, resizer, others>>

(* the arguments of one onProgress call *)
ProgressCall(current, total, f) == [current |-> current, total |-> total, file |-> f]

(* faulty variant: the callback is handed the loop index i, counted from 0 *)
BatchBeginZeroBased ==
  /\ batch.pc = "loop"
  /\ batch.i < Len(batch.files)
  /\ LET f == batch.files[batch.i + 1]
     IN /\ batch' = [batch EXCEPT
                       !.pc = "await",
                       !.progress = IF batch.onProgress
                                    THEN Append(@, ProgressCall(batch.i, Len(batch.files), f))
                                    ELSE @]
        /\ BeginCall(f)

(* loop head: onProgress(i + 1, files.length, file), then the call on file *)
BatchBegin ==
  /\ batch.pc = "loop"
  /\ batch.i < Len(batch.files)
  /\ LET f == batch.files[batch.i + 1]
     IN /\ batch' = [batch EXCEPT
                       !.pc = "await",
                       !.progress = IF batch.onProgress
                                    THEN Append(@, ProgressCall(batch.i + 1, Len(batch.files), f))
                                    ELSE @]
        /\ BeginCall(f)

(* faulty variant: a failed result adds nothing to totalCleanedSize *)
BatchCollectSuccessfulSizes ==
  /\ batch.pc = "await"
  /\ pc = "done"
  /\ batch' = [batch EXCEPT
                 !.pc = "loop",
                 !.results = Append(@, result),
                 !.totalOriginalSize = @ + result.originalSize,
                 !.totalCleanedSize = IF result.success THEN @ + result.cleanedSize ELSE @,
                 !.success = IF result.success THEN @ + 1 ELSE @,
                 !.failed = IF result.success THEN @ ELSE @ + 1,
                 !.i = @ + 1]
  /\ UNCHANGED <<file, options, now, pc, result, piexifLoaded, locals, resizer, others>>

(* the awaited call has returned: push the result, add up, count, i++ *)
BatchCollect ==
  /\ batch.pc = "await"
  /\ pc = "done"
  /\ batch' = [batch EXCEPT
                 !.pc = "loop",
                 !.results = Append(@, result),
                 !.totalOriginalSize = @ + result.originalSize,
                 !.totalCleanedSize = @ + result.cleanedSize,
                 !.success = IF result.success THEN @ + 1 ELSE @,
                 !.failed = IF result.success THEN @ ELSE @ + 1,
                 !.i = @ + 1]
  /\ UNCHANGED <<file, options, now, pc, result, piexifLoaded, locals, resizer, others>>

(* i = files.length: the loop ends and the totals are returned *)
BatchReturn ==
  /\ batch.pc = "loop"
  /\ batch.i >= Len(batch.files)
  /\ batch' = [batch EXCEPT !.pc = "returned"]
  /\ UNCHANGED <<file, options, now, pc, result, piexifLoaded, locals, resizer, others>>

BatchNext ==
  \/ BatchBegin
  \/ BatchCollect
  \/ BatchReturn
  \/ DetectHeic
  \/ Passthrough
  \/ DetectJpeg
  \/ HeicConvert
  \/ HeicLoadPiexif
  \/ HeicEncode
  \/ JpegLoadPiexif
  \/ ReadFile
  \/ Decode
  \/ Redact
  \/ TierFull
  \/ TierMinimal
  \/ TierSafeRebuild
  \/ TierBareStrip
  \/ Finish

BatchSpec == BatchInit /\ [][BatchNext]_vars

---------------------------------------------------------------------------
(* image-resizer.js: calculateSize *)

(* a JavaScript number that is a non-negative fraction n/d *)
Rat(n, d) == [n |-> n, d |-> d]

(* x <= q, for an integer x *)
IntLeq(x, q) == x * q.d <= q.n

(* q / x, for a positive integer x *)
RatOver(q, x) == Rat(q.n, q.d * x)

(* Math.min(p, q) *)
RatMin(p, q) == IF p.n * q.d <= q.n * p.d THEN p ELSE q

RatMax(p, q) == IF p.n * q.d <= q.n * p.d THEN q ELSE p

(* Math.round(x * q): halves are rounded up *)
RoundTimes(x, q) == (2 * x * q.n + q.d) \div (2 * q.d)

(* faulty variant: the larger of the two ratios is taken as the scale *)
calculateSizeWithMax(originalWidth, originalHeight, maxWidth, maxHeight) ==
  IF /\ (maxWidth.n = 0 \/ IntLeq(originalWidth, maxWidth))
     /\ (maxHeight.n = 0 \/ IntLeq(originalHeight, maxHeight))
  THEN [width |-> originalWidth, height |-> originalHeight, scaled |-> FALSE]
  ELSE LET scale ==
             IF maxWidth.n # 0 /\ maxHeight.n # 0
             THEN RatMax(RatOver(maxWidth, originalWidth), RatOver(maxHeight, originalHeight))
             ELSE IF maxWidth.n # 0 THEN RatOver(maxWidth, originalWidth)
             ELSE IF maxHeight.n # 0 THEN RatOver(maxHeight, originalHeight)
             ELSE Rat(1, 1)
       IN [width |-> RoundTimes(originalWidth, scale),
           height |-> RoundTimes(originalHeight, scale), scaled |-> TRUE]

calculateSize(originalWidth, originalHeight, maxWidth, maxHeight) ==
  IF /\ (maxWidth.n = 0 \/ IntLeq(originalWidth, maxWidth))
     /\ (maxHeight.n = 0 \/ IntLeq(originalHeight, maxHeight))
  THEN [width |-> originalWidth, height |-> originalHeight, scaled |-> FALSE]
  ELSE LET scale ==
             IF maxWidth.n # 0 /\ maxHeight.n # 0
             THEN RatMin(RatOver(maxWidth, originalWidth), RatOver(maxHeight, originalHeight))
             ELSE IF maxWidth.n # 0 THEN RatOver(maxWidth, originalWidth)
             ELSE IF maxHeight.n # 0 THEN RatOver(maxHeight, originalHeight)
             ELSE Rat(1, 1)
       IN [width |-> RoundTimes(originalWidth, scale),
           height |-> RoundTimes(originalHeight, scale), scaled |-> TRUE]

MaxDimension == 6

MaxLimit == 4

(* the limits a caller passes: 0 (no limit), whole numbers, and halves *)
InputLimits ==
  {Rat(k, 1) : k \in 0..MaxLimit} \cup {Rat(2 * k + 1, 2) : k \in 0..(MaxLimit - 1)}

CalcInit ==
  /\ piexifLoaded = "null"
  /\ batch = NoBatch
  /\ options = [copyright |-> Undefined, artist |-> Undefined, offsetTime |-> Undefined]
  /\ NoCall
  /\ NoResizing
  /\ OthersIdle
  /\ \E ow \in 1..MaxDimension, oh \in 1..MaxDimension, mw \in InputLimits, mh \in InputLimits :
       sizing = [NoSizing EXCEPT !.pc = "called", !.originalWidth = ow, !.originalHeight = oh,
                                 !.maxWidth = mw, !.maxHeight = mh]

(* the call returns *)
CalculateSize ==
  /\ sizing.pc = "called"
  /\ LET size == calculateSize(sizing.originalWidth, sizing.originalHeight,
                               sizing.maxWidth, sizing.maxHeight)
     IN sizing' = [sizing EXCEPT !.pc = "returned", !.width = size.width,
                                 !.height = size.height, !.scaled = size.scaled]
  /\ UNCHANGED <<others, file, options, now, pc, result, piexifLoaded, locals, batch>>
  /\ UNCHANGED <<cache, webpSupported, resize, effects, history>>

CalcSpec == CalcInit /\ [][CalculateSize]_vars

---------------------------------------------------------------------------
(* image-resizer.js: resizeImage and clearCache *)

MaxCalls == 2

(* { ...DEFAULT_OPTIONS, ...options } *)
MergeOptions(given) ==
  [maxWidth |-> given.maxWidth, maxHeight |-> given.maxHeight,
   format |-> given.format, quality |-> given.quality]

(* x || fallback, for a number *)
NumberOr(x, fallback) == IF x.n = 0 THEN fallback ELSE x

(* s || fallback, for a string *)
StringOr(str, fallback) == IF str = "" THEN fallback ELSE str

(* the five parts the template of getCacheKey joins with '|' *)
getCacheKey(url, opts) ==
  <<url, NumberOr(opts.maxWidth, Rat(0, 1)), NumberOr(opts.maxHeight, Rat(0, 1)),
    StringOr(opts.format, "webp"), NumberOr(opts.quality, Rat(4, 5))>>

(* types[format] || fallback *)
getMimeType(format) ==
  CASE format = "webp" -> "image/webp"
    [] format \in {"jpeg", "jpg"} -> "image/jpeg"
    [] format = "png" -> "image/png"
    [] OTHER -> "image/jpeg"

(* cache.set(key, value) *)
CacheSet(c, key, value) ==
  [k \in DOMAIN c \cup {key} |-> IF k = key THEN value ELSE c[k]]

(* what the network and the image decoder give for each URL *)
Resources ==
  [url \in {"photo.jpg", "anim.gif", "missing.png"} |->
     CASE url = "photo.jpg" ->
            [ok |-> TRUE, status |-> "200 OK", blob |-> Blob(url, "image/jpeg", 900),
             naturalWidth |-> 4, naturalHeight |-> 3]
       [] url = "anim.gif" ->
            [ok |-> TRUE, status |-> "200 OK", blob |-> Blob(url, "image/gif", 700),
             naturalWidth |-> 2, naturalHeight |-> 2]
       [] OTHER ->
            [ok |-> FALSE, status |-> "404 Not Found", blob |-> NullBlob,
             naturalWidth |-> 0, naturalHeight |-> 0]]

Urls == DOMAIN Resources

ResizeInputs ==
  {Options({}, DEFAULT_OPTIONS),
   Options({"maxWidth"}, [DEFAULT_OPTIONS EXCEPT !.maxWidth = Rat(2, 1)]),
   Options({"format"}, [DEFAULT_OPTIONS EXCEPT !.format = "jpeg"]),
   Options({"quality"}, [DEFAULT_OPTIONS EXCEPT !.quality = Rat(0, 1)]),
   Options({"maxWidth", "maxHeight", "format"},
           [DEFAULT_OPTIONS EXCEPT !.maxWidth = Rat(2, 1), !.maxHeight = Rat(2, 1),
                                   !.format = "jpeg"])}

ResizeInit ==
  /\ piexifLoaded = "null"
  /\ batch = NoBatch
  /\ options = [copyright |-> Undefined, artist |-> Undefined, offsetTime |-> Undefined]
  /\ NoCall
  /\ ResizerIdle
  /\ OthersIdle

cleaner == <<file, options, now, pc, result, piexifLoaded, locals, batch>>

(* the fetches, image loads and encodes done so far *)
Work(e) == e.fetch + e.loadImage + e.toBlob

(* URL.createObjectURL(blob) *)
NewObjectURL(e) == [null |-> FALSE, id |-> e.createObjectURL + 1]

(* return r: the call ends, and what it returned is remembered *)
Return(r, e) ==
  /\ resize' = [resize EXCEPT !.pc = "returned", !.result = r]
  /\ effects' = e
  /\ history' = Append(history, [url |-> resize.url, options |-> resize.options,
                                 returned |-> r, work |-> Work(e) - resize.start,
                                 epoch |-> e.clearCache])

(* the branches that hand back the fetched blob: success, cache.set, return *)
KeepOriginal(r, e) ==
  LET made == [r EXCEPT !.success = TRUE, !.blob = resize.originalBlob,
                        !.url = NewObjectURL(e),
                        !.compressedSize = resize.originalBlob.size]
  IN /\ cache' = CacheSet(cache, resize.cacheKey, made)
     /\ Return(made, [e EXCEPT !.createObjectURL = @ + 1])

(* faulty variant: the catch block stores the failed result under the key *)
ResizeCaughtStoresFailure(error, e) ==
  /\ cache' = CacheSet(cache, resize.cacheKey,
                       [resize.result EXCEPT !.error = Err(ErrorMessage(error))])
  /\ Return(cache'[resize.cacheKey], e)

(* the catch block: the error message is recorded, nothing is cached *)
ResizeCaught(error, e) ==
  /\ Return([resize.result EXCEPT !.error = Err(ErrorMessage(error))], e)
  /\ UNCHANGED cache

(* the awaits of resizeImage: fetch and response.blob, loadImage,          *)
(* checkWebPSupport, and the promise around canvas.toBlob                  *)
ResizeAwaitPcs == {"fetch", "loadImage", "checkWebP", "toBlob"}

(* the calls made so far: those that returned and the one suspended *)
CallsMade == Len(history) + (IF parked.pc \in ResizeAwaitPcs THEN 1 ELSE 0)

(* resizeImage(url, options): merge the options, look the key up *)
ResizeImage ==
  /\ resize.pc \in {"idle", "returned"}
  /\ CallsMade < MaxCalls
  /\ \E url \in Urls, given \in ResizeInputs :
       LET opts == MergeOptions(given)
           cacheKey == getCacheKey(url, opts)
       IN IF cacheKey \in DOMAIN cache
          THEN /\ resize' = [resize EXCEPT !.pc = "returned", !.url = url,
                                           !.options = given, !.opts = opts,
                                           !.cacheKey = cacheKey,
                                           !.result = [cache[cacheKey] EXCEPT !.fromCache = TRUE],
                                           !.start = Work(effects)]
               /\ history' = Append(history,
                                    [url |-> url, options |-> given,
                                     returned |-> [cache[cacheKey] EXCEPT !.fromCache = TRUE],
                                     work |-> 0, epoch |-> effects.clearCache])
          ELSE /\ resize' = [pc |-> "fetch", url |-> url, options |-> given,
                             opts |-> opts, cacheKey |-> cacheKey,
                             result |-> NewResizeResult(opts), originalBlob |-> NullBlob,
                             outputFormat |-> "", start |-> Work(effects)]
               /\ UNCHANGED history
  /\ UNCHANGED <<others, cleaner, sizing, cache, webpSupported, effects>>

(* fetch(url), response.blob(), and the GIF branch *)
ResizeFetch ==
  /\ resize.pc = "fetch"
  /\ LET e == [effects EXCEPT !.fetch = @ + 1]
         response == Resources[resize.url]
     IN \/ ResizeCaught(ErrorObject("Failed to fetch"), e)
        \/ /\ ~response.ok
           /\ Return([resize.result EXCEPT !.error = Err("HTTP " \o response.status)], e)
           /\ UNCHANGED cache
        \/ /\ response.ok
           /\ response.blob.type = "image/gif"
           /\ cache' = CacheSet(cache, resize.cacheKey,
                                [resize.result EXCEPT
                                   !.originalSize = response.blob.size, !.success = TRUE,
                                   !.blob = response.blob, !.url = NewObjectURL(e),
                                   !.compressedSize = response.blob.size, !.format = "gif"])
           /\ Return(cache'[resize.cacheKey], [e EXCEPT !.createObjectURL = @ + 1])
        \/ /\ response.ok
           /\ response.blob.type # "image/gif"
           /\ resize' = [resize EXCEPT !.pc = "loadImage", !.originalBlob = response.blob,
                                       !.result.originalSize = response.blob.size]
           /\ effects' = e
           /\ UNCHANGED <<cache, history>>
  /\ UNCHANGED <<others, cleaner, sizing, webpSupported>>

(* faulty variant: an image that needs no scaling is encoded all the same *)
ResizeLoadImageAlwaysEncodes ==
  /\ resize.pc = "loadImage"
  /\ LET e == [effects EXCEPT !.loadImage = @ + 1]
         img == Resources[resize.url]
         size == calculateSize(img.naturalWidth, img.naturalHeight,
                               resize.opts.maxWidth, resize.opts.maxHeight)
         sized == [resize.result EXCEPT !.width = size.width, !.height = size.height]
     IN \/ ResizeCaught(ErrorObject("image failed to load: " \o resize.url), e)
        \/ /\ resize' = [resize EXCEPT
                           !.pc = IF resize.opts.format = "webp" THEN "checkWebP" ELSE "canvas",
                           !.result = sized, !.outputFormat = resize.opts.format]
           /\ effects' = e
           /\ UNCHANGED <<cache, history>>
  /\ UNCHANGED <<others, cleaner, sizing, webpSupported>>

(* loadImage(url), calculateSize, and the branch that needs no encoding *)
ResizeLoadImage ==
  /\ resize.pc = "loadImage"
  /\ LET e == [effects EXCEPT !.loadImage = @ + 1]
         img == Resources[resize.url]
         size == calculateSize(img.naturalWidth, img.naturalHeight,
                               resize.opts.maxWidth, resize.opts.maxHeight)
         sized == [resize.result EXCEPT !.width = size.width, !.height = size.height]
     IN \/ ResizeCaught(ErrorObject("image failed to load: " \o resize.url), e)
        \/ /\ ~size.scaled
           /\ resize.originalBlob.type = getMimeType(resize.opts.format)
           /\ KeepOriginal(sized, e)
        \/ /\ size.scaled \/ resize.originalBlob.type # getMimeType(resize.opts.format)
           /\ resize' = [resize EXCEPT
                           !.pc = IF resize.opts.format = "webp" THEN "checkWebP" ELSE "canvas",
                           !.result = sized, !.outputFormat = resize.opts.format]
           /\ effects' = e
           /\ UNCHANGED <<cache, history>>
  /\ UNCHANGED <<others, cleaner, sizing, webpSupported>>

(* checkWebPSupport(): memoized; without WebP the output format is JPEG *)
ResizeCheckWebP ==
  /\ resize.pc = "checkWebP"
  /\ \E supportsWebP \in {"true", "false"} :
       /\ webpSupported # "null" => supportsWebP = webpSupported
       /\ webpSupported' = supportsWebP
       /\ resize' = IF supportsWebP = "true"
                    THEN [resize EXCEPT !.pc = "canvas"]
                    ELSE [resize EXCEPT !.pc = "canvas", !.outputFormat = "jpeg",
                                        !.result.format = "jpeg"]
  /\ UNCHANGED <<others, cleaner, sizing, cache, effects, history>>

(* canvas.getContext('2d'): without a context the fetched blob is returned *)
ResizeCanvas ==
  /\ resize.pc = "canvas"
  /\ \/ /\ KeepOriginal([resize.result EXCEPT
                           !.error = Err("Canvas not available, original returned")],
                        effects)
     \/ /\ resize' = [resize EXCEPT !.pc = "toBlob"]
        /\ UNCHANGED <<cache, effects, history>>
  /\ UNCHANGED <<others, cleaner, sizing, webpSupported>>

(* the blob canvas.toBlob(resolve, mimeType, quality) produces: PNG is    *)
(* encoded without a quality, the other formats shrink with the quality  *)
Encoded(url, width, height, format, quality) ==
  Blob("canvas of " \o url, getMimeType(format),
       IF format = "png"
       THEN 10 * width * height
       ELSE 2 * width * height + (8 * width * height * quality.n) \div quality.d)

(* faulty variant: the encoded result is returned but not stored *)
ResizeToBlobNotCached ==
  /\ resize.pc = "toBlob"
  /\ LET e == [effects EXCEPT !.toBlob = @ + 1]
         compressedBlob == Encoded(resize.url, resize.result.width, resize.result.height,
                                   resize.outputFormat, resize.opts.quality)
     IN /\ Return([resize.result EXCEPT
                     !.success = TRUE, !.blob = compressedBlob, !.url = NewObjectURL(e),
                     !.compressedSize = compressedBlob.size],
                  [e EXCEPT !.createObjectURL = @ + 1])
        /\ UNCHANGED cache
  /\ UNCHANGED <<others, cleaner, sizing, webpSupported>>

(* drawImage and canvas.toBlob: a blob, null, or a raised SecurityError *)
ResizeToBlob ==
  /\ resize.pc = "toBlob"
  /\ LET e == [effects EXCEPT !.toBlob = @ + 1]
         compressedBlob == Encoded(resize.url, resize.result.width, resize.result.height,
                                   resize.outputFormat, resize.opts.quality)
     IN \/ ResizeCaught(ErrorObject("Tainted canvases may not be exported."), e)
        \/ KeepOriginal([resize.result EXCEPT
                           !.error = Err("Canvas export failed, original returned")], e)
        \/ /\ cache' = CacheSet(cache, resize.cacheKey,
                                [resize.result EXCEPT
                                   !.success = TRUE, !.blob = compressedBlob,
                                   !.url = NewObjectURL(e),
                                   !.compressedSize = compressedBlob.size])
           /\ Return(cache'[resize.cacheKey], [e EXCEPT !.createObjectURL = @ + 1])
  /\ UNCHANGED <<others, cleaner, sizing, webpSupported>>

(* clearCache(): every cached Blob URL is revoked, the Map is emptied; on *)
(* an empty Map the call changes nothing and is left out                  *)
ClearCache ==
  /\ resize.pc \in {"idle", "returned"}
  /\ cache # EmptyCache
  /\ effects' = [effects EXCEPT
                   !.revoked = @ \cup {cache[key].url.id : key \in DOMAIN cache},
                   !.clearCache = @ + 1]
  /\ cache' = EmptyCache
  /\ UNCHANGED <<others, cleaner, sizing, webpSupported, resize, history>>

ResizeNext ==
  \/ ResizeImage
  \/ ResizeFetch
  \/ ResizeLoadImage
  \/ ResizeCheckWebP
  \/ ResizeCanvas
  \/ ResizeToBlob
  \/ ClearCache

ResizeSpec == ResizeInit /\ [][ResizeNext]_vars

---------------------------------------------------------------------------
(* cleanExifIfd(ifd, preserveKeys) on its own *)

MaxArrayLen == 2

(* the elements of an array value: a number, and the invalid ones *)
ElementTokens == {"1", "undefined", "null", "NaN", "Infinity"}

(* the values a key may hold *)
CleanValues ==
  {Undefined, Null, NaN, Infinity, [t |-> "number", v |-> <<"-Infinity">>], Num(1),
   Str(<<"x">>), Str(<<>>)}
    \cup {Arr(elems) : elems \in SeqsUpTo(ElementTokens, MaxArrayLen)}

CleanKeys == {Orientation, Make}

(* the objects over CleanKeys, and null *)
CleanIfds ==
  {[null |-> TRUE, obj |-> EmptyIfd]}
    \cup {[null |-> FALSE, obj |-> o] :
            o \in UNION {[keys -> CleanValues] : keys \in SUBSET CleanKeys}}

CleanInit ==
  /\ piexifLoaded = "null"
  /\ batch = NoBatch
  /\ options = [copyright |-> Undefined, artist |-> Undefined, offsetTime |-> Undefined]
  /\ NoCall
  /\ ResizerIdle
  /\ hook = NoHook
  /\ parked = NoFrame
  /\ imports = 0
  /\ \E o \in CleanIfds, keys \in SUBSET CleanKeys :
       cleaning = [NoCleaning EXCEPT !.pc = "called", !.ifd = o, !.preserveKeys = keys]

(* the call returns: {} for a missing ifd, the cleaned copy otherwise *)
CleanExifIfd ==
  /\ cleaning.pc = "called"
  /\ cleaning' = [cleaning EXCEPT
                    !.pc = "returned",
                    !.cleaned = IF cleaning.ifd.null THEN EmptyIfd
                                ELSE cleanExifIfd(cleaning.ifd.obj, cleaning.preserveKeys)]
  /\ UNCHANGED <<cleaner, resizer, hook, parked, imports>>

CleanSpec == CleanInit /\ [][CleanExifIfd]_vars

---------------------------------------------------------------------------
(* useExifCleaner(defaultOptions), and two cleanFile/cleanBlob calls on it *)
(* that overlap: while one call is suspended at an await the other runs    *)

(* { ...defaultOptions, ...options }: a key the call gives wins *)
MergeHookOptions(defaults, given) ==
  [k \in DOMAIN defaults |-> IF given[k] # Undefined THEN given[k] ELSE defaults[k]]

(* let isProcessing = false; let error = null; and the object returned,    *)
(* whose isProcessing and error fields hold the values read at the return  *)
NewHook(defaults) ==
  [created |-> TRUE, defaultOptions |-> defaults, isProcessing |-> FALSE,
   error |-> NoError, returned |-> [isProcessing |-> FALSE, error |-> NoError],
   calls |-> 0, inFlight |-> 0, peak |-> 0]

(* the locals of the call that is running, as a record *)
Frame ==
  [file |-> file, options |-> options, now |-> now, pc |-> pc, result |-> result,
   dataURL |-> dataURL, exifObj |-> exifObj, ifd0 |-> ifd0, exifIfd |-> exifIfd,
   originalOrientation |-> originalOrientation, newDataURL |-> newDataURL,
   dumpError |-> dumpError, attempts |-> attempts]

(* a call not made yet: its arguments, and no locals *)
PendingFrame(f, o) ==
  [file |-> f, options |-> o, now |-> [year |-> 0, month |-> 0, day |-> 0], pc |-> "idle",
   result |-> NewResult(NullFile), dataURL |-> NoData, exifObj |-> EmptyExif,
   ifd0 |-> EmptyIfd, exifIfd |-> EmptyIfd, originalOrientation |-> Undefined,
   newDataURL |-> NoData, dumpError |-> NoError, attempts |-> <<>>]

(* the running call is the one of the frame *)
Holds(frame) ==
  /\ file = frame.file
  /\ options = frame.options
  /\ now = frame.now
  /\ pc = frame.pc
  /\ result = frame.result
  /\ dataURL = frame.dataURL
  /\ exifObj = frame.exifObj
  /\ ifd0 = frame.ifd0
  /\ exifIfd = frame.exifIfd
  /\ originalOrientation = frame.originalOrientation
  /\ newDataURL = frame.newDataURL
  /\ dumpError = frame.dumpError
  /\ attempts = frame.attempts

NameImageJpg == <<"i","m","a","g","e",".","j","p","g">>

(* the files of the two calls: those of BatchFiles and a second JPEG *)
OverlapFiles ==
  BatchFiles
    \cup {File(NameNoExt, MimeJpg,
               Data("jpeg", 1200, TRUE,
                    InputExif(Put(EmptyIfd, Orientation, Num(3)),
                              [ifd0 |-> Put(EmptyIfd, Model, SampleText), exif |-> EmptyIfd],
                              [dt |-> EmptyIfd,
                               dto |-> Put(EmptyIfd, DateTimeOriginal, Str(DateValid))],
                              [ifd0 |-> Put(EmptyIfd, XResolution, Arr(<<"72", "1">>)),
                               exif |-> Put(EmptyIfd, ColorSpace, Num(1))],
                              NoBlocks)))}

HookDefaults == {NoOptions, [NoOptions EXCEPT !.artist = Str(CustomArtist)]}

OverlapInit ==
  /\ piexifLoaded = "null"
  /\ batch = NoBatch
  /\ ResizerIdle
  /\ cleaning = NoCleaning
  /\ imports = 0
  /\ \E defaults \in HookDefaults : hook = NewHook(defaults)
  /\ \E f \in OverlapFiles, g \in OverlapFiles :
       /\ Holds(PendingFrame(f, NoOptions))
       /\ parked = PendingFrame(g, [NoOptions EXCEPT !.copyright = Str(CustomCopyright)])

(* isProcessing = true; error = null; and the call a hook function makes *)
HookBegin(f) ==
  /\ hook' = [hook EXCEPT !.isProcessing = TRUE, !.error = NoError, !.calls = @ + 1,
                          !.inFlight = @ + 1,
                          !.peak = IF hook.inFlight + 1 > @ THEN hook.inFlight + 1 ELSE @]
  /\ options' = MergeHookOptions(hook.defaultOptions, options)
  /\ file' = f
  /\ result' = NewResult(f)
  /\ pc' = "start"
  /\ UNCHANGED <<now, piexifLoaded, locals, batch, resizer, cleaning, parked, imports>>

(* cleanFile(file, options) up to its call of cleanupExifFromFile *)
CleanFile ==
  /\ pc = "idle"
  /\ hook.created
  /\ HookBegin(file)

(* cleanBlob(blob, options): cleanupExifFromBlob wraps the blob in a File  *)
(* named image.jpg, of the blob's type or image/jpeg                       *)
CleanBlob ==
  /\ pc = "idle"
  /\ hook.created
  /\ HookBegin(File(NameImageJpg, IF file.type = <<>> THEN MimeJpeg ELSE file.type,
                    file.data))

(* result.error || 'processing failed' *)
HookError(r) ==
  IF r.error = NoError \/ r.error.msg = "" THEN Err("processing failed") ELSE r.error

(* the rest of cleanFile/cleanBlob once the awaited call has returned:     *)
(* error is set for a failure, and the finally block clears isProcessing   *)
CleanSettle ==
  /\ pc = "done"
  /\ hook.created
  /\ hook' = [hook EXCEPT !.error = IF ~result.success THEN HookError(result) ELSE @,
                          !.isProcessing = FALSE,
                          !.inFlight = @ - 1]
  /\ pc' = "settled"
  /\ UNCHANGED <<file, options, now, result, piexifLoaded, locals, batch, resizer, cleaning,
                 parked, imports>>

(* where a call is suspended: not yet made, at one of its awaits, or over *)
AwaitPcs == {"idle", "heicConvert", "heicLoadPiexif", "loadPiexif", "readFile", "done",
             "settled"}

(* faulty variant: the result object is shared by the two calls *)
SwitchSharingResult ==
  /\ pc \in AwaitPcs
  /\ parked.pc \notin {"none", "settled"}
  /\ parked' = Frame
  /\ file' = parked.file
  /\ options' = parked.options
  /\ now' = parked.now
  /\ pc' = parked.pc
  /\ dataURL' = parked.dataURL
  /\ exifObj' = parked.exifObj
  /\ ifd0' = parked.ifd0
  /\ exifIfd' = parked.exifIfd
  /\ originalOrientation' = parked.originalOrientation
  /\ newDataURL' = parked.newDataURL
  /\ dumpError' = parked.dumpError
  /\ attempts' = parked.attempts
  /\ UNCHANGED <<result, piexifLoaded, batch, resizer, cleaning, hook, imports>>

(* the running call is suspended at an await and the other call goes on:   *)
(* each call has its own locals, the module-level memo is shared           *)
Switch ==
  /\ pc \in AwaitPcs
  /\ parked.pc \notin {"none", "settled"}
  /\ parked' = Frame
  /\ file' = parked.file
  /\ options' = parked.options
  /\ now' = parked.now
  /\ pc' = parked.pc
  /\ result' = parked.result
  /\ dataURL' = parked.dataURL
  /\ exifObj' = parked.exifObj
  /\ ifd0' = parked.ifd0
  /\ exifIfd' = parked.exifIfd
  /\ originalOrientation' = parked.originalOrientation
  /\ newDataURL' = parked.newDataURL
  /\ dumpError' = parked.dumpError
  /\ attempts' = parked.attempts
  /\ UNCHANGED <<piexifLoaded, batch, resizer, cleaning, hook, imports>>

OverlapNext ==
  \/ CleanFile
  \/ CleanBlob
  \/ CleanSettle
  \/ Switch
  \/ DetectHeic
  \/ Passthrough
  \/ DetectJpeg
  \/ HeicConvert
  \/ HeicLoadPiexif
  \/ HeicEncode
  \/ JpegLoadPiexif
  \/ ReadFile
  \/ Decode
  \/ Redact
  \/ TierFull
  \/ TierMinimal
  \/ TierSafeRebuild
  \/ TierBareStrip
  \/ Finish

OverlapSpec == OverlapInit /\ [][OverlapNext]_vars

(* ---------------------------------------------------------------------- *)
(* Two resizeImage calls that overlap: a call gives up the thread at each  *)
(* of its awaits, and another caller may call resizeImage or resume there. *)
(* The suspended call's locals are kept in parked.                         *)
(* ---------------------------------------------------------------------- *)

(* no resizeImage call is between its start and its return *)
NoResizeInFlight ==
  /\ resize.pc \in {"idle", "returned"}
  /\ parked.pc \notin ResizeAwaitPcs

(* the running call waits at an await; the thread goes to a new caller *)
ResizeSuspend ==
  /\ resize.pc \in ResizeAwaitPcs
  /\ parked = NoFrame
  /\ parked' = resize
  /\ resize' = NoResize
  /\ UNCHANGED <<cleaning, hook, imports, cleaner, sizing, cache, webpSupported, effects, history>>

(* the promise the suspended call waits for settles while the other call   *)
(* waits or is over: the suspended call gets the thread                    *)
ResizeResume ==
  /\ resize.pc \in ResizeAwaitPcs \cup {"idle", "returned"}
  /\ parked.pc \in ResizeAwaitPcs
  /\ resize' = parked
  /\ parked' = resize
  /\ UNCHANGED <<cleaning, hook, imports, cleaner, sizing, cache, webpSupported, effects, history>>

(* clearCache() called while no resizeImage call is in flight *)
ClearCacheAtRest ==
  /\ NoResizeInFlight
  /\ ClearCache

ResizeOverlapNext ==
  \/ ResizeImage
  \/ ResizeFetch
  \/ ResizeLoadImage
  \/ ResizeCheckWebP
  \/ ResizeCanvas
  \/ ResizeToBlob
  \/ ResizeSuspend
  \/ ResizeResume
  \/ ClearCacheAtRest

ResizeOverlapSpec == ResizeInit /\ [][ResizeOverlapNext]_vars

---------------------------------------------------------------------------
(* Vocabulary of the properties *)

Done == pc = "done"

OnHeicPath == isHeicFormat(file)

OnJpegPath == ~isHeicFormat(file) /\ isJpegFormat(file)

(* a JPEG whose tag directory piexif.load decodes *)
DecodedJpeg == OnJpegPath /\ file.data.parseable

LastAttempt == attempts[Len(attempts)]

SomeTierSucceeded == attempts # <<>> /\ LastAttempt.outcome = "ok"

(* the call has returned the output of one of the given tiers *)
ProducedBy(tiers) == Done /\ SomeTierSucceeded /\ LastAttempt.tier \in tiers

AllTiersFailed ==
  Len(attempts) = 4 /\ \A i \in 1..Len(attempts) : attempts[i].outcome # "ok"

(* the metadata of the returned file *)
OutputExif == result.file.data.exif

DecodedExif == file.data.exif

TierSequence == <<"Full", "Minimal", "SafeRebuild", "BareStrip">>

(* the bytes a tier produces from the document it built *)
TierOutput(a) ==
  CASE a.tier \in {"Full", "Minimal"} -> Insert(a.doc, dataURL)
    [] a.tier = "SafeRebuild" -> Insert(a.doc, Remove(dataURL))
    [] OTHER -> Remove(dataURL)

ExpectedCopyright ==
  IF options.copyright = Undefined THEN Str(DEFAULT_COPYRIGHT) ELSE options.copyright

ExpectedArtist ==
  IF options.artist = Undefined THEN Str(DEFAULT_ARTIST) ELSE options.artist

ExpectedOffsetTime ==
  IF options.offsetTime = Undefined THEN Str(DEFAULT_OFFSET_TIME) ELSE options.offsetTime

BeginsWithDate(value) == value.t = "string" /\ MatchesDatePrefix(value.v)

(* the date of a value followed by " 00:00:00" *)
DateAtMidnight(value) ==
  Str(SubSeq(value.v, 1, 10) \o <<" ", "0", "0", ":", "0", "0", ":", "0", "0">>)

HasAttribution(exif) ==
  /\ Get(exif["0th"], Copyright) = ExpectedCopyright
  /\ Get(exif["0th"], Artist) = ExpectedArtist

HasOffsets(exif) ==
  \A tag \in {OffsetTime, OffsetTimeOriginal, OffsetTimeDigitized} :
    Get(exif["Exif"], tag) = ExpectedOffsetTime

---------------------------------------------------------------------------
(* C1: on the JPEG path, when all four tiers have raised, the call returns *)
(* the input file unchanged and success is false.                          *)
C1_FailSafe ==
  (Done /\ OnJpegPath /\ AllTiersFailed)
    => (result.file = file /\ result.blob = file /\ result.success = FALSE)

(* C2: for a decoded JPEG with a GPS tag, every result returned with       *)
(* success = true carries a file whose GPS block is empty.                 *)
C2_GpsEliminated ==
  (Done /\ DecodedJpeg /\ DecodedExif["GPS"] # EmptyIfd /\ result.success)
    => OutputExif["GPS"] = EmptyIfd

(* C3: the tiers are attempted in the order Full, Minimal, Safe-rebuild,   *)
(* Bare-strip; a tier is attempted only after the one before it raised, no *)
(* tier twice, none after a success; the output is that of the first tier  *)
(* that succeeded.                                                         *)
C3_TiersInOrder ==
  OnJpegPath =>
    /\ Len(attempts) <= Len(TierSequence)
    /\ \A i \in 1..Len(attempts) : attempts[i].tier = TierSequence[i]
    /\ \A i \in 1..(Len(attempts) - 1) : attempts[i].outcome # "ok"
    /\ \A k \in 1..Len(TierSequence) :
         pc = "tier" \o ToString(k) =>
           Len(attempts) = k - 1 /\ (attempts # <<>> => LastAttempt.outcome # "ok")
    /\ SomeTierSucceeded =>
         /\ pc \in {"encoded", "done"}
         /\ newDataURL = TierOutput(LastAttempt)
         /\ Done => (result.success /\ result.file.data = newDataURL
                     /\ result.blob.data = newDataURL)

(* C3 witness: Full and Minimal raised, Safe-rebuild produced the output *)
C3_Witness ==
  /\ Done
  /\ OnJpegPath
  /\ Len(attempts) = 3
  /\ attempts[1].outcome = "encode"
  /\ attempts[2].outcome = "encode"
  /\ attempts[3].outcome = "ok"
  /\ result.file.data = Insert(attempts[3].doc, Remove(dataURL))

(* C4 as stated: for a decoded orientation v in 1..8, the output of any    *)
(* tier that succeeds has orientation v.                                   *)
C4_OrientationAnyTier ==
  (Done /\ DecodedJpeg /\ SomeTierSucceeded
     /\ Get(DecodedExif["0th"], Orientation) \in {Num(v) : v \in OrientationValues})
    => Get(OutputExif["0th"], Orientation) = Get(DecodedExif["0th"], Orientation)

(* C4 amended: for a decoded orientation v in 1..8, the output of the      *)
(* Full, Minimal or Safe-rebuild tier has orientation v; the output of the *)
(* Bare-strip tier has no orientation tag.                                 *)
C4_OrientationKept ==
  (DecodedJpeg /\ Get(DecodedExif["0th"], Orientation) \in {Num(v) : v \in OrientationValues})
    => /\ ProducedBy({"Full", "Minimal", "SafeRebuild"})
            => Get(OutputExif["0th"], Orientation) = Get(DecodedExif["0th"], Orientation)
       /\ ProducedBy({"BareStrip"}) => Orientation \notin DOMAIN OutputExif["0th"]

(* C4 witness: orientation 8 restored by the Safe-rebuild tier *)
C4_Witness ==
  /\ ProducedBy({"SafeRebuild"})
  /\ Get(DecodedExif["0th"], Orientation) = Num(8)
  /\ Get(OutputExif["0th"], Orientation) = Num(8)

(* C5: no tag of the removal set present in the input appears in the       *)
(* document of the cleaned output, whichever tier produced it.             *)
C5_RemovalComplete ==
  (Done /\ DecodedJpeg /\ SomeTierSucceeded)
    => /\ \A tag \in PRIVACY_TAGS.ifd0 :
            tag \in DOMAIN DecodedExif["0th"] => tag \notin DOMAIN OutputExif["0th"]
       /\ \A tag \in PRIVACY_TAGS.exif :
            tag \in DOMAIN DecodedExif["Exif"] => tag \notin DOMAIN OutputExif["Exif"]

(* C6 as stated: every result with success = true, for a decoded JPEG or a *)
(* HEIC input, has Copyright and Artist equal to the options or defaults.  *)
C6_AttributionOnSuccess ==
  (Done /\ result.success /\ (OnHeicPath \/ DecodedJpeg)) => HasAttribution(OutputExif)

(* C6 amended: every output produced by the Full, Minimal or Safe-rebuild  *)
(* tier or by the HEIC path has Copyright and Artist equal to the options  *)
(* or, where unset, the defaults; a Bare-strip output has no attribution.  *)
C6_Attribution ==
  /\ ProducedBy({"Full", "Minimal", "SafeRebuild", "HeicMinimal"}) => HasAttribution(OutputExif)
  /\ ProducedBy({"BareStrip"}) => OutputExif["0th"] = EmptyIfd

(* C6 witness: the Minimal tier, custom copyright, default artist *)
C6_Witness ==
  /\ ProducedBy({"Minimal"})
  /\ options.copyright = Str(CustomCopyright)
  /\ options.artist = Undefined
  /\ Get(OutputExif["0th"], Copyright) = Str(CustomCopyright)
  /\ Get(OutputExif["0th"], Artist) = Str(DEFAULT_ARTIST)

(* what a document may hold for a date tag whose input begins with a date *)
DateRewritten(ifdIn, ifdOut, tag, mustWrite) ==
  (BeginsWithDate(Get(ifdIn, tag)) /\ (mustWrite \/ tag \in DOMAIN ifdOut))
    => Get(ifdOut, tag) = DateAtMidnight(Get(ifdIn, tag))

C8_MalformedAbsent ==
  (Done /\ DecodedJpeg /\ SomeTierSucceeded)
    => /\ (DateTimeOriginal \in DOMAIN DecodedExif["Exif"]
             /\ ~BeginsWithDate(DecodedExif["Exif"][DateTimeOriginal]))
            => DateTimeOriginal \notin DOMAIN OutputExif["Exif"]
       /\ (DateTime \in DOMAIN DecodedExif["0th"]
             /\ ~BeginsWithDate(DecodedExif["0th"][DateTime]))
            => DateTime \notin DOMAIN OutputExif["0th"]

(* C9 as stated: after every successful redaction the three offset-time    *)
(* tags of the output equal options.offsetTime or the default.             *)
C9_OffsetsOnSuccess ==
  (Done /\ result.success /\ (OnHeicPath \/ DecodedJpeg)) => HasOffsets(OutputExif)

(* C9 amended: every output produced by the Full or Minimal tier or by the *)
(* HEIC path has the three offset-time tags equal to options.offsetTime or *)
(* the default; Safe-rebuild and Bare-strip outputs have no offset tag.    *)
C9_Offsets ==
  /\ ProducedBy({"Full", "Minimal", "HeicMinimal"}) => HasOffsets(OutputExif)
  /\ ProducedBy({"SafeRebuild", "BareStrip"}) => OutputExif["Exif"] = EmptyIfd

(* C9 witness: an input OffsetTimeOriginal of +08:00 overwritten by +00:00 *)
C9_Witness ==
  /\ ProducedBy({"Full"})
  /\ Get(DecodedExif["Exif"], OffsetTimeOriginal) = Str(OffsetPlus8)
  /\ options.offsetTime = Undefined
  /\ \A tag \in {OffsetTime, OffsetTimeOriginal, OffsetTimeDigitized} :
       Get(OutputExif["Exif"], tag) = Str(DEFAULT_OFFSET_TIME)

C11_FailureReturnsInput ==
  (Done /\ ~result.success) =>
    /\ result.file = file
    /\ result.blob = file
    /\ result.cleanedSize = file.size
    /\ result.cleanedSize = result.originalSize
    /\ ~result.error.null
    /\ result.error.msg # ""

(* C11 witness: the FileReader rejected with an event that has no message, *)
(* and the call returned a failure that carries the input file.            *)
C11_Witness ==
  /\ Done
  /\ ~result.success
  /\ OnJpegPath
  /\ piexifLoaded = "resolved"
  /\ dataURL = NoData
  /\ result.error = Err(StringOf(ProgressEvent))
  /\ result.file = file

(* C12: a JPEG whose tag directory piexif.load cannot decode is returned   *)
(* as it is with success = true and empty removedFields and addedFields,   *)
(* and no encode tier is attempted.                                        *)
C12_NoExifPassthrough ==
  (Done /\ OnJpegPath /\ dataURL # NoData /\ ~dataURL.parseable) =>
    /\ result.success
    /\ result.file = file
    /\ result.blob = file
    /\ result.cleanedSize = file.size
    /\ result.removedFields = <<>>
    /\ result.addedFields = <<>>
    /\ attempts = <<>>
    /\ newDataURL = NoData

(* C12 witness: the file was read, piexif.load raised, the call returned *)
C12_Witness ==
  /\ Done
  /\ OnJpegPath
  /\ dataURL = file.data
  /\ ~dataURL.parseable
  /\ result.success

(* the file is neither a JPEG nor a HEIC/HEIF, by type and by name *)
UnsupportedFormat(f) ==
  /\ f.type \notin {MimeJpeg, MimeJpg}
  /\ ToLowerCase(f.type) \notin {MimeHeic, MimeHeif}
  /\ ~EndsWith(ToLowerCase(f.name), ExtHeic)
  /\ ~EndsWith(ToLowerCase(f.name), ExtHeif)

(* C13: an input that is neither JPEG nor HEIC/HEIF is returned as it is   *)
(* with success = true, empty removedFields and addedFields and a note in  *)
(* error; the codec is not loaded, the file is not read or decoded, and no *)
(* tier is attempted.                                                      *)
C13_UnsupportedPassthrough ==
  UnsupportedFormat(file) =>
    /\ piexifLoaded = "null"
    /\ dataURL = NoData
    /\ exifObj = EmptyExif
    /\ attempts = <<>>
    /\ newDataURL = NoData
    /\ Done =>
         /\ result.success
         /\ result.file = file
         /\ result.blob = file
         /\ result.cleanedSize = file.size
         /\ result.removedFields = <<>>
         /\ result.addedFields = <<>>
         /\ ~result.error.null
         /\ result.error.msg # ""

(* C13 witness: a PNG has been returned *)
C13_Witness ==
  /\ Done
  /\ file.type = MimePng
  /\ result.success
  /\ result.file = file

(* the date of new Date() as YYYY:MM:DD 00:00:00, months counted from 1 *)
TodayAtMidnight ==
  Str(YearString(now.year) \o <<":">> \o PadStart2(now.month + 1) \o <<":">>
        \o PadStart2(now.day) \o <<" ", "0", "0", ":", "0", "0", ":", "0", "0">>)

(* C14: a successfully processed input whose name ends in .heic yields a   *)
(* file whose name ends in .jpg and whose type is image/jpeg, convertedFrom *)
(* 'HEIC/HEIF', and metadata that holds Copyright, Artist, and             *)
(* DateTimeOriginal and DateTime equal to today's date at 00:00:00.        *)
C14_HeicConversion ==
  (Done /\ result.success /\ EndsWith(ToLowerCase(file.name), ExtHeic)) =>
    /\ EndsWith(result.file.name, ExtJpg)
    /\ Len(result.file.name) = Len(file.name) - Len(ExtHeic) + Len(ExtJpg)
    /\ result.file.type = MimeJpeg
    /\ result.convertedFrom = "HEIC/HEIF"
    /\ HasAttribution(OutputExif)
    /\ Get(OutputExif["Exif"], DateTimeOriginal) = TodayAtMidnight
    /\ Get(OutputExif["0th"], DateTime) = TodayAtMidnight

(* C14 witness: IMG_1.HEIC was converted in January, the month getMonth() *)
(* numbers 0                                                               *)
C14_Witness ==
  /\ Done
  /\ result.success
  /\ file.name = NameImgHeic
  /\ now.month = 0
  /\ result.convertedFrom = "HEIC/HEIF"
  /\ result.file.data.fmt = "jpeg"

RECURSIVE SumSeq(_)
SumSeq(q) == IF q = <<>> THEN 0 ELSE Head(q) + SumSeq(Tail(q))

(* the results collected so far, and how many of them failed *)
Collected == batch.results

FailedIndexes == {k \in 1..Len(Collected) : ~Collected[k].success}

(* results[k] is the result of the call on files[k] *)
ResultOf(r, f) ==
  /\ r.originalSize = f.size
  /\ ~r.file.null
  /\ ~r.success => r.file = f
  /\ r.success =>
       r.file.name = (IF isHeicFormat(f) THEN HeicNewFileName(f.name) ELSE f.name)

(* C15: for a batch of n files, results has length n and results[k] is the *)
(* result for files[k]; success + failed = n, failed counts exactly the    *)
(* results whose success is false; totalOriginalSize and totalCleanedSize  *)
(* are the sums of the results' originalSize and cleanedSize; a failed     *)
(* entry contributes its original size to totalCleanedSize.                *)
C15_BatchAggregation ==
  batch.pc # "none" =>
    /\ Len(Collected) = batch.i
    /\ batch.pc = "returned" => Len(Collected) = Len(batch.files)
    /\ \A k \in 1..Len(Collected) : ResultOf(Collected[k], batch.files[k])
    /\ batch.success + batch.failed = Len(Collected)
    /\ batch.failed = Cardinality(FailedIndexes)
    /\ batch.totalOriginalSize =
         SumSeq([k \in 1..Len(Collected) |-> Collected[k].originalSize])
    /\ batch.totalCleanedSize =
         SumSeq([k \in 1..Len(Collected) |-> Collected[k].cleanedSize])
    /\ \A k \in FailedIndexes : Collected[k].cleanedSize = batch.files[k].size

(* C15 witness: a returned batch of two files, the first failed, the       *)
(* second cleaned to a size other than its original size                   *)
C15_Witness ==
  /\ batch.pc = "returned"
  /\ Len(batch.files) = 2
  /\ batch.success = 1
  /\ batch.failed = 1
  /\ ~Collected[1].success
  /\ Collected[2].success
  /\ Collected[2].cleanedSize # Collected[2].originalSize

(* a cleanupExifFromFile call is between its first line and its return *)
CallInFlight == pc \notin {"idle", "done"}

(* the number of files whose processing has begun *)
Begun == IF batch.pc = "await" THEN batch.i + 1 ELSE batch.i

(* C16: the batch processes its files one at a time in input order: the    *)
(* call on file i+1 begins only when the results of files 1..i are         *)
(* complete, and onProgress is called once per file, before the call on    *)
(* that file begins, with (i+1, total, file), in increasing order.         *)
C16_OneAtATime ==
  batch.pc # "none" =>
    /\ Len(Collected) = batch.i
    /\ \A k \in 1..Len(Collected) :
         ~Collected[k].file.null /\ Collected[k].originalSize = batch.files[k].size
    /\ CallInFlight => (batch.pc = "await" /\ file = batch.files[batch.i + 1])
    /\ batch.pc = "await" => file = batch.files[batch.i + 1]
    /\ batch.onProgress =>
         batch.progress = [k \in 1..Begun |-> ProgressCall(k, Len(batch.files), batch.files[k])]
    /\ ~batch.onProgress => batch.progress = <<>>

(* C16 witness: the call on the second file is under way, the first result *)
(* is collected, and onProgress has been called twice                      *)
C16_Witness ==
  /\ batch.pc = "await"
  /\ batch.i = 1
  /\ pc = "tier1"
  /\ Len(Collected) = 1
  /\ Len(batch.progress) = 2
  /\ batch.progress[2].current = 2

(* C17: a call never rejects: whatever a collaborator raises, the call     *)
(* goes on to return a result object with a file, so the batch collects    *)
(* the result of a failing file and goes on to the remaining files.        *)
C17_NeverRejects ==
  /\ pc # "rejected"
  /\ CallInFlight => ENABLED Next
  /\ Done => ~result.file.null
  /\ (Done /\ ~result.success) => ~result.error.null
  /\ (batch.pc = "await" /\ Done) => ENABLED BatchCollect
  /\ batch.pc = "loop" => ENABLED (BatchBegin \/ BatchReturn)
  /\ batch.pc = "returned" => Len(Collected) = Len(batch.files)

(* C17 witness: the first file failed on a raised error and the second     *)
(* file was processed successfully afterwards                              *)
C17_Witness ==
  /\ batch.pc = "returned"
  /\ Len(batch.files) = 2
  /\ ~Collected[1].success
  /\ Collected[1].file = batch.files[1]
  /\ Collected[2].success
  /\ Collected[2].file # batch.files[2]

(* the limit is absent (0) or the value is within it *)
Within(x, limit) == limit.n = 0 \/ IntLeq(x, limit)

(* the two ratios limit / original, for the limits that are set *)
ScaleCandidates ==
  (IF sizing.maxWidth.n # 0
   THEN {RatOver(sizing.maxWidth, sizing.originalWidth)} ELSE {})
    \cup (IF sizing.maxHeight.n # 0
          THEN {RatOver(sizing.maxHeight, sizing.originalHeight)} ELSE {})

(* what the claim says of a returned calculateSize call *)
SizeContract ==
  /\ sizing.width <= sizing.originalWidth
  /\ sizing.height <= sizing.originalHeight
  /\ IF Within(sizing.originalWidth, sizing.maxWidth)
          /\ Within(sizing.originalHeight, sizing.maxHeight)
     THEN /\ sizing.width = sizing.originalWidth
          /\ sizing.height = sizing.originalHeight
          /\ ~sizing.scaled
     ELSE /\ sizing.scaled
          /\ Within(sizing.width, sizing.maxWidth)
          /\ Within(sizing.height, sizing.maxHeight)
          /\ \E scale \in ScaleCandidates :
               /\ sizing.width = RoundTimes(sizing.originalWidth, scale)
               /\ sizing.height = RoundTimes(sizing.originalHeight, scale)

(* C18 as stated: for positive integer original dimensions and any         *)
(* non-negative limits, calculateSize never enlarges, returns the original *)
(* size unscaled when it fits, and otherwise a size within every non-zero  *)
(* limit, both dimensions coming from one scale factor.                    *)
C18_WithinAnyLimits == sizing.pc = "returned" => SizeContract

(* C18 amended: the same, for limits that are whole numbers.               *)
C18_WithinWholeLimits ==
  (sizing.pc = "returned" /\ sizing.maxWidth.d = 1 /\ sizing.maxHeight.d = 1)
    => SizeContract

(* C18 witness: 6 x 4 within 3 x 3 comes back as 3 x 2, scaled *)
C18_Witness ==
  /\ sizing.pc = "returned"
  /\ sizing.originalWidth = 6
  /\ sizing.originalHeight = 4
  /\ sizing.maxWidth = Rat(3, 1)
  /\ sizing.maxHeight = Rat(3, 1)
  /\ sizing.width = 3
  /\ sizing.height = 2
  /\ sizing.scaled

(* the image behind a returned call is within the limits of its options *)
NotLarger(h) ==
  /\ Within(Resources[h.url].naturalWidth, h.options.maxWidth)
  /\ Within(Resources[h.url].naturalHeight, h.options.maxHeight)

(* the returned blob is the fetched one *)
ReturnsFetchedBlob(h) == h.returned.blob = Resources[h.url].blob

SucceededBefore(j, k) ==
  /\ j < k
  /\ history[j].url = history[k].url
  /\ history[j].options = history[k].options
  /\ history[j].epoch = history[k].epoch
  /\ history[j].returned.success

(* C20: once resizeImage has succeeded for a url and options, a later call *)
(* with the same url and options, with no clearCache in between, returns   *)
(* the stored result with fromCache = true and fetches, loads and encodes  *)
(* nothing; the result of a call that did the work has fromCache = false.  *)
C20_CachedResult ==
  \A k \in 1..Len(history) :
    /\ \A j \in 1..Len(history) :
         SucceededBefore(j, k) =>
           /\ history[k].returned = [history[j].returned EXCEPT !.fromCache = TRUE]
           /\ history[k].work = 0
    /\ history[k].work > 0 => ~history[k].returned.fromCache

(* C20 witness: photo.jpg was fetched, loaded and encoded by the first     *)
(* call and answered from the cache by the second                          *)
C20_Witness ==
  /\ Len(history) = 2
  /\ history[1].url = "photo.jpg"
  /\ SucceededBefore(1, 2)
  /\ history[1].work = 3
  /\ ~history[1].returned.fromCache
  /\ history[2].work = 0
  /\ history[2].returned.fromCache
  /\ history[2].returned.blob = history[1].returned.blob

(* the tiers that hand a document to the encoder *)
EncodingTiers == {"Full", "Minimal", "SafeRebuild"}

(* the orientation of the document piexif.load returned *)
DecodedOrientation == Get(DecodedExif["0th"], Orientation)

(* C22: the cached orientation is the one of the decoded IFD0, read before *)
(* a tag of it is deleted or rewritten, and every document the Full,       *)
(* Minimal and Safe-rebuild tiers hand to the encoder carries that value   *)
(* whenever it is neither undefined nor null.                              *)
C22_OrientationCached ==
  DecodedJpeg
    => /\ pc \in {"tier1", "tier2", "tier3", "tier4", "encoded"}
            => originalOrientation = DecodedOrientation
       /\ \A i \in 1..Len(attempts) :
            (attempts[i].tier \in EncodingTiers /\ attempts[i].outcome # "remove"
               /\ DecodedOrientation \notin {Undefined, Null})
              => Get(attempts[i].doc["0th"], Orientation) = DecodedOrientation

(* C22 witness: orientation 6, handed to the encoder by all three tiers *)
C22_Witness ==
  /\ DecodedJpeg
  /\ DecodedOrientation = Num(6)
  /\ Len(attempts) = 3
  /\ \A i \in 1..3 : Get(attempts[i].doc["0th"], Orientation) = Num(6)
  /\ attempts[3].outcome = "encode"

(* the tags the Minimal tier may write *)
MinimalAllowList ==
  [g \in IFDNames |->
     CASE g = "0th" -> {Orientation, XResolution, YResolution, ResolutionUnit,
                        YCbCrPositioning, Copyright, Artist, DateTime}
       [] g = "Exif" -> {ColorSpace, PixelXDimension, PixelYDimension, DateTimeOriginal,
                         OffsetTime, OffsetTimeOriginal, OffsetTimeDigitized}
       [] OTHER -> {}]

(* the tag is absent or holds a date followed by " 00:00:00" *)
TimeZeroed(ifd, tag) ==
  tag \in DOMAIN ifd => (BeginsWithDate(ifd[tag]) /\ ifd[tag] = DateAtMidnight(ifd[tag]))

(* C24: the document of the Minimal tier holds tags of the allow-list only, *)
(* its GPS, Thumbnail and Interop groups are empty, Copyright, Artist and   *)
(* the three offsets are present, and its DateTime and DateTimeOriginal     *)
(* hold time-zeroed values, not the time of day of the input.               *)
C24_MinimalAllowList ==
  \A i \in 1..Len(attempts) :
    attempts[i].tier = "Minimal"
      => /\ \A g \in IFDNames : DOMAIN attempts[i].doc[g] \subseteq MinimalAllowList[g]
         /\ HasAttribution(attempts[i].doc)
         /\ HasOffsets(attempts[i].doc)
         /\ TimeZeroed(attempts[i].doc["0th"], DateTime)
         /\ TimeZeroed(attempts[i].doc["Exif"], DateTimeOriginal)

(* the input bytes with every EXIF segment taken out *)
StrippedInput == [file.data EXCEPT !.hasExif = FALSE, !.exif = EmptyExif]

(* C25: the Safe-rebuild tier inserts its document into the input stripped *)
(* of all EXIF, never into the unstripped input, and that document holds   *)
(* Copyright, Artist and, when known, the orientation, and nothing else;   *)
(* the output of the Bare-strip tier is the stripped input, with no        *)
(* document inserted.                                                      *)
C25_StripThenRebuild ==
  DecodedJpeg
    => /\ \A i \in 1..Len(attempts) :
            (attempts[i].tier = "SafeRebuild" /\ attempts[i].inserted)
              => /\ attempts[i].target = StrippedInput
                 /\ DOMAIN attempts[i].doc["0th"]
                      = {Copyright, Artist}
                          \cup (IF DecodedOrientation \in {Undefined, Null}
                                THEN {} ELSE {Orientation})
                 /\ \A g \in IFDNames \ {"0th"} : attempts[i].doc[g] = EmptyIfd
       /\ ProducedBy({"SafeRebuild"})
            => /\ result.file.data.pixels = file.data.pixels
               /\ OutputExif = LastAttempt.doc
       /\ ProducedBy({"BareStrip"})
            => /\ result.file.data = StrippedInput
               /\ ~LastAttempt.inserted

(* C25 witness: a JPEG with GPS and maker tags, rebuilt by the Safe-rebuild *)
(* tier with copyright, artist and orientation 6 only                       *)
C25_Witness ==
  /\ ProducedBy({"SafeRebuild"})
  /\ DecodedExif["GPS"] # EmptyIfd
  /\ Make \in DOMAIN DecodedExif["0th"]
  /\ LastAttempt.target = StrippedInput
  /\ DOMAIN OutputExif["0th"] = {Copyright, Artist, Orientation}
  /\ OutputExif["GPS"] = EmptyIfd

(* a number that is neither NaN nor infinite *)
FiniteToken(token) == token \notin {"undefined", "null", "NaN", "Infinity", "-Infinity"}

(* a value piexif.dump can encode: defined, finite, and for an array,      *)
(* non-empty with defined and finite elements                              *)
ValidValue(value) ==
  /\ value.t \notin {"undefined", "null"}
  /\ value.t = "number" => FiniteToken(value.v[1])
  /\ value.t = "array" => (value.v # <<>> /\ \A i \in 1..Len(value.v) : FiniteToken(value.v[i]))

(* the tags the redaction deletes or writes, by group *)
TouchedTags ==
  [g \in IFDNames |->
     CASE g = "0th" -> PRIVACY_TAGS.ifd0 \cup {Copyright, Artist, DateTime}
       [] g = "Exif" -> PRIVACY_TAGS.exif
                          \cup {DateTimeOriginal, OffsetTime, OffsetTimeOriginal,
                                OffsetTimeDigitized}
       [] OTHER -> {}]

(* C26: when the Full tier succeeds, every input tag of the Primary,       *)
(* ExifSub and Interop groups that is outside the deleted set, is not      *)
(* Copyright, Artist, DateTime, DateTimeOriginal or an offset-time tag,    *)
(* and has a valid value, is in the output with its input value.           *)
C26_FullKeepsTheRest ==
  (DecodedJpeg /\ ProducedBy({"Full"}))
    => \A g \in {"0th", "Exif", "Interop"} :
         \A tag \in DOMAIN DecodedExif[g] \ TouchedTags[g] :
           ValidValue(DecodedExif[g][tag])
             => Get(OutputExif[g], tag) = DecodedExif[g][tag]

(* C26 witness: orientation, resolution, colour space, pixel dimensions,   *)
(* EXIF version, exposure data, DateTimeDigitized and the Interop index    *)
(* come out of the Full tier as they went in, next to deleted maker tags   *)
C26_Witness ==
  /\ DecodedJpeg
  /\ ProducedBy({"Full"})
  /\ Make \in DOMAIN DecodedExif["0th"] /\ Make \notin DOMAIN OutputExif["0th"]
  /\ \A tag \in {Orientation, XResolution, YResolution, ResolutionUnit, YCbCrPositioning} :
       tag \in DOMAIN DecodedExif["0th"] /\ Get(OutputExif["0th"], tag) = DecodedExif["0th"][tag]
  /\ \A tag \in {ColorSpace, PixelXDimension, PixelYDimension, ExifVersion, FNumber,
                 DateTimeDigitized} :
       tag \in DOMAIN DecodedExif["Exif"]
         /\ Get(OutputExif["Exif"], tag) = DecodedExif["Exif"][tag]
  /\ Get(OutputExif["Interop"], InteroperabilityIndex) = SampleText

(* the text that reports the removal of a tag of the removal set *)
ReportLabel ==
  [g \in {"0th", "Exif"} |->
     IF g = "0th"
     THEN (Make :> "Make") @@ (Model :> "Model") @@ (Software :> "Software")
            @@ (HostComputer :> "HostComputer") @@ (XPAuthor :> "XPAuthor")
            @@ (XPComment :> "XPComment")
     ELSE (MakerNote :> "MakerNote (Apple privacy data)") @@ (UserComment :> "UserComment")
            @@ (ImageUniqueID :> "ImageUniqueID") @@ (CameraOwnerName :> "CameraOwnerName")
            @@ (BodySerialNumber :> "BodySerialNumber") @@ (LensMake :> "LensMake")
            @@ (LensModel :> "LensModel") @@ (LensSerialNumber :> "LensSerialNumber")]

(* the number of removedFields entries with the given text *)
Reported(label) ==
  Cardinality({i \in DOMAIN result.removedFields : result.removedFields[i].f = label})

(* the place of an entry in the order GPS, Primary, ExifSub, Thumbnail *)
ReportRank(e) ==
  CASE e = NoteGps -> 1
    [] \E tag \in DOMAIN ReportLabel["0th"] : e.f = ReportLabel["0th"][tag] -> 2
    [] \E tag \in DOMAIN ReportLabel["Exif"] : e.f = ReportLabel["Exif"][tag] -> 3
    [] e = NoteThumbnail -> 4
    [] OTHER -> 5

(* sections 1 to 4 have run on the decoded document *)
Redacted == DecodedJpeg /\ (pc \in {"tier1", "tier2", "tier3", "tier4", "encoded"}
                               \/ (Done /\ attempts # <<>>))

(* the report is faithful for the given tags of IFD0 and of the Exif IFD *)
FaithfulReport(tags) ==
  Redacted
    => /\ Reported(NoteGps.f) = (IF DecodedExif["GPS"] # EmptyIfd THEN 1 ELSE 0)
       /\ Reported(NoteThumbnail.f) = (IF DecodedExif["1st"] # EmptyIfd THEN 1 ELSE 0)
       /\ \A tag \in tags.ifd0 :
            Reported(ReportLabel["0th"][tag])
              = (IF tag \in DOMAIN DecodedExif["0th"] THEN 1 ELSE 0)
       /\ \A tag \in tags.exif :
            Reported(ReportLabel["Exif"][tag])
              = (IF tag \in DOMAIN DecodedExif["Exif"] THEN 1 ELSE 0)
       /\ \A i, j \in DOMAIN result.removedFields :
            i < j => ReportRank(result.removedFields[i]) <= ReportRank(result.removedFields[j])

(* C27: removedFields holds the GPS entry iff the input GPS group was not  *)
(* empty, the Thumbnail entry iff the input Thumbnail group was not empty, *)
(* and one entry for a tag of the removal set iff the input held that tag, *)
(* in the order GPS, Primary tags, ExifSub tags, Thumbnail.                *)
C27_RemovedFieldsFaithful == FaithfulReport(PRIVACY_TAGS)

(* the HEIC test: by lower-cased MIME type or by lower-cased name suffix *)
HeicByTypeOrName(f) ==
  \/ ToLowerCase(f.type) \in {MimeHeic, MimeHeif}
  \/ \E ext \in {ExtHeic, ExtHeif} :
       /\ Len(f.name) >= Len(ext)
       /\ ToLowerCase(SubSeq(f.name, Len(f.name) - Len(ext) + 1, Len(f.name))) = ext

JpegByType(f) == f.type \in {MimeJpeg, MimeJpg}

(* where each path leaves the call *)
HeicPathPcs == {"heicConvert", "heicLoadPiexif", "heicEncode"}

JpegPathPcs == {"loadPiexif", "readFile", "decode", "redact", "tier1", "tier2", "tier3",
                "tier4", "encoded"}

TookHeicPath ==
  /\ result.removedFields # <<>>
  /\ result.removedFields[1] = NoteHeicConverted
  /\ pc \in HeicPathPcs \cup {"done"}

TookPassthrough ==
  /\ Done
  /\ result.error = Err("unsupported format, EXIF processing skipped")
  /\ piexifLoaded = "null"

TookJpegPath ==
  /\ ~TookHeicPath
  /\ ~TookPassthrough
  /\ pc \in JpegPathPcs \cup {"done"}

(* C28: every input takes exactly one path: the HEIC path iff its          *)
(* lower-cased MIME type is image/heic or image/heif or its lower-cased    *)
(* name ends in .heic or .heif; otherwise the JPEG path iff its MIME type  *)
(* is image/jpeg or image/jpg; otherwise the passthrough path. A file that *)
(* passes both tests is processed as HEIC.                                 *)
C28_PathSelection ==
  pc \notin {"idle", "start"}
    => /\ TookHeicPath <=> HeicByTypeOrName(file)
       /\ TookJpegPath <=> (~HeicByTypeOrName(file) /\ JpegByType(file))
       /\ TookPassthrough <=> (~HeicByTypeOrName(file) /\ ~JpegByType(file))

(* C28 witness: IMG_1.HEIC declared as image/jpeg is on the HEIC path *)
C28_Witness ==
  /\ file.name = NameImgHeic
  /\ file.type = MimeJpeg
  /\ pc = "heicEncode"
  /\ TookHeicPath
  /\ dataURL = HeicToJpeg(file.data)

(* the HEIC path has produced a converted file *)
HeicConverted == Done /\ TookHeicPath /\ result.success /\ result.convertedFrom = "HEIC/HEIF"

(* the name ends in .jpg *)
NamedJpg(name) ==
  Len(name) >= Len(ExtJpg) /\ SubSeq(name, Len(name) - Len(ExtJpg) + 1, Len(name)) = ExtJpg

(* C29: for every input processed on the HEIC path, recognised by its name *)
(* or by its MIME type alone, the produced file has type image/jpeg and a  *)
(* name whose extension is .jpg.                                           *)
C29_HeicOutputNamedJpg ==
  HeicConverted => (result.file.type = MimeJpeg /\ NamedJpg(result.file.name))

(* C23: cleanExifIfd returns a new mapping in which every key of           *)
(* preserveKeys whose value is neither undefined nor null is kept with its *)
(* value, be it NaN, infinite or an empty array; every other key whose     *)
(* value is undefined, null, NaN, infinite, an empty array or an array     *)
(* with such an element is dropped; every remaining key is kept with its   *)
(* value; and no key is added.                                             *)
C23_CleanContract ==
  (cleaning.pc = "returned" /\ ~cleaning.ifd.null)
    => /\ \A key \in DOMAIN cleaning.ifd.obj :
            key \in DOMAIN cleaning.cleaned
              <=> IF key \in cleaning.preserveKeys
                  THEN cleaning.ifd.obj[key].t \notin {"undefined", "null"}
                  ELSE ValidValue(cleaning.ifd.obj[key])
       /\ \A key \in DOMAIN cleaning.cleaned :
            /\ key \in DOMAIN cleaning.ifd.obj
            /\ cleaning.cleaned[key] = cleaning.ifd.obj[key]

(* C23 witness: a preserved orientation of NaN is kept, an array with a    *)
(* NaN element under another key is dropped                                *)
C23_Witness ==
  /\ cleaning.pc = "returned"
  /\ cleaning.preserveKeys = {Orientation}
  /\ cleaning.ifd.obj = (Orientation :> NaN) @@ (Make :> Arr(<<"1", "NaN">>))
  /\ cleaning.cleaned = (Orientation :> NaN)

(* C21: the isProcessing field of the object useExifCleaner returned is    *)
(* true exactly while at least one of the hook's calls is in flight, also  *)
(* when two calls overlap and one of them finishes first.                  *)
C21_IsProcessing ==
  hook.created => (hook.returned.isProcessing <=> hook.inFlight > 0)

(* what the return statements build from the result object r *)
Finished(r, f, notes, data) ==
  [r EXCEPT !.removedFields = @ \o notes, !.success = TRUE,
            !.file = File(f.name, f.type, data), !.blob = BlobOf(data),
            !.cleanedSize = SizeOf(data)]

Unchanged(r, f, msg) ==
  [r EXCEPT !.success = TRUE, !.file = f, !.blob = f, !.cleanedSize = f.size,
            !.error = Err(msg)]

(* the results of a HEIC/HEIF input, for each day the clock may show *)
SoloHeicResults(f, o) ==
  LET r0 == [NewResult(f) EXCEPT !.removedFields = <<NoteHeicConverted>>]
      Outcomes(date) ==
        LET dateStr == HeicDateStr(date)
            doc == HeicExif(OptCopyright(o), OptArtist(o), dateStr, OptOffsetTime(o))
            r1 == [r0 EXCEPT !.addedFields = HeicAddedFields(OptCopyright(o), OptArtist(o),
                                                             dateStr, OptOffsetTime(o))]
            data == Insert(doc, HeicToJpeg(f.data))
        IN {CatchResult(r1, f, EncodeError),
            [r1 EXCEPT !.success = TRUE,
                       !.file = File(HeicNewFileName(f.name), MimeJpeg, data),
                       !.blob = BlobOf(data), !.cleanedSize = SizeOf(data),
                       !.convertedFrom = "HEIC/HEIF"]}
  IN {CatchResult(r0, f, e) : e \in HeicDecodeErrors \cup {PiexifLoadError}}
       \cup UNION {Outcomes(date) : date \in InputNow}

(* the results of a JPEG input whose directory decodes, one for each tier  *)
(* that may be the first to succeed, and one for none                      *)
SoloDecodedResults(f, o) ==
  LET doc == f.data.exif
      copyright == OptCopyright(o)
      artist == OptArtist(o)
      offsetTime == OptOffsetTime(o)
      redactedIfd0 == RedactIfd0(doc["0th"], copyright, artist)
      redactedExifIfd == RedactExifIfd(doc["Exif"], offsetTime)
      orientation == ReadOrientation(doc["0th"])
      full == FullExif(doc, redactedIfd0, redactedExifIfd, orientation)
      minimal == MinimalExif(redactedIfd0, redactedExifIfd, copyright, artist, offsetTime)
      safe == SafeExif(copyright, artist, orientation)
      r1 == [NewResult(f) EXCEPT
               !.removedFields = RedactRemovedFields(doc),
               !.addedFields = RedactAddedFields(doc, copyright, artist, offsetTime)]
  IN {Finished(r1, f, <<>>, Insert(full, f.data)),
      Finished(r1, f, <<NoteSafeRebuild>>, Insert(safe, Remove(f.data))),
      Finished(r1, f, <<NoteBareStrip>>, Remove(f.data)),
      Unchanged(r1, f, "EXIF processing failed, original file returned")}
       \cup (IF minimal # full
             THEN {Finished(r1, f, <<NoteMinimal>>, Insert(minimal, f.data))}
             ELSE {})

(* the results cleanupExifFromFile(f, o) may return when no other call runs *)
SoloResults(f, o) ==
  IF isHeicFormat(f) THEN SoloHeicResults(f, o)
  ELSE IF ~isJpegFormat(f)
  THEN {Unchanged(NewResult(f), f, "unsupported format, EXIF processing skipped")}
  ELSE {CatchResult(NewResult(f), f, PiexifLoadError),
        CatchResult(NewResult(f), f, ProgressEvent)}
         \cup (IF f.data.parseable
               THEN SoloDecodedResults(f, o)
               ELSE {Unchanged(NewResult(f), f,
                               "cannot parse EXIF data, original file returned")})

(* a call that runs alone returns one of the results of SoloResults *)
SoloResultsSound == Done => result \in SoloResults(file, options)

(* C30: overlapping cleanupExifFromFile calls do not interfere: under any  *)
(* interleaving at the await points, the result of each call is a result   *)
(* the same call returns when it runs alone.                               *)
C30_NoInterference ==
  /\ pc \in {"done", "settled"} => result \in SoloResults(file, options)
  /\ parked.pc \in {"done", "settled"}
       => parked.result \in SoloResults(parked.file, parked.options)

(* C30 witness: two calls in flight at once, on two JPEGs with other tags, *)
(* both returned with the reports of their own removals                    *)
C30_Witness ==
  /\ hook.peak = 2
  /\ pc = "settled"
  /\ parked.pc = "settled"
  /\ file.data.parseable /\ parked.file.data.parseable
  /\ file # parked.file
  /\ result.success /\ parked.result.success
  /\ result.removedFields = RedactRemovedFields(file.data.exif)
  /\ parked.result.removedFields = RedactRemovedFields(parked.file.data.exif)
  /\ result.removedFields # parked.result.removedFields

(* the group and the tag an addedFields entry names *)
AddedTag ==
  ("Copyright" :> [g |-> "0th", tag |-> Copyright])
    @@ ("Artist" :> [g |-> "0th", tag |-> Artist])
    @@ ("DateTimeOriginal" :> [g |-> "Exif", tag |-> DateTimeOriginal])
    @@ ("OffsetTimeOriginal" :> [g |-> "Exif", tag |-> OffsetTimeOriginal])

(* every entry of addedFields is in the metadata of the returned file *)
AddedFieldsInOutput ==
  \A i \in DOMAIN result.addedFields :
    LET e == result.addedFields[i]
        at == AddedTag[e.f]
    IN /\ at.tag \in DOMAIN OutputExif[at.g]
       /\ OutputExif[at.g][at.tag].v = e.v

(* C33: for every result with success = true, each tag named in            *)
(* addedFields is in the metadata of the output file with the reported     *)
(* value, whichever tier produced the output.                              *)
C33_AddedFieldsPresent == (Done /\ result.success) => AddedFieldsInOutput

(* the notes the fallback tiers push to removedFields *)
FallbackNote ==
  ("Minimal" :> NoteMinimal) @@ ("SafeRebuild" :> NoteSafeRebuild)
    @@ ("BareStrip" :> NoteBareStrip)

(* the fallback notes of the report, in order *)
ReportedNotes ==
  SelectSeq(result.removedFields,
            LAMBDA e : e \in {NoteMinimal, NoteSafeRebuild, NoteBareStrip})

(* C34: the tier that produced the output is identifiable from the report: *)
(* a result of the Full tier carries no fallback note, a result of the     *)
(* Minimal, Safe-rebuild or Bare-strip tier carries the note of that tier  *)
(* and no other, and a note is appended only once its tier has succeeded;  *)
(* a tier that failed leaves no note.                                      *)
C34_TierIdentifiable ==
  ReportedNotes =
    IF SomeTierSucceeded /\ LastAttempt.tier \in DOMAIN FallbackNote
    THEN <<FallbackNote[LastAttempt.tier]>>
    ELSE <<>>

(* C34 witness: the Full and Minimal tiers failed without a note, the      *)
(* Safe-rebuild tier succeeded and left its note as the last entry         *)
C34_Witness ==
  /\ ProducedBy({"SafeRebuild"})
  /\ attempts[1].outcome = "encode" /\ attempts[2].outcome = "encode"
  /\ ReportedNotes = <<NoteSafeRebuild>>
  /\ result.removedFields[Len(result.removedFields)] = NoteSafeRebuild
  /\ Len(result.removedFields) > 1

(* C35: every result cleanupExifFromFile returns, on every path, has a     *)
(* file and a blob that are not null, cleanedSize equal to the size of the *)
(* returned file, and originalSize equal to the size of the input file.    *)
C35_ResultShape ==
  Done
    => /\ ~result.file.null
       /\ ~result.blob.null
       /\ result.cleanedSize = result.file.size
       /\ result.blob.size = result.file.size
       /\ result.originalSize = file.size

(* C35 witness: a stripped output smaller than its input, with both sizes  *)
(* reported                                                                *)
C35_Witness ==
  /\ ProducedBy({"BareStrip"})
  /\ ~result.file.null
  /\ result.originalSize = file.size
  /\ result.cleanedSize = result.file.size
  /\ result.cleanedSize < result.originalSize

(* C39: for positive whole dimensions and positive limits, calculateSize   *)
(* returns a width and a height of at least 1.                             *)
C39_NeverZero ==
  (sizing.pc = "returned" /\ sizing.maxWidth.n > 0 /\ sizing.maxHeight.n > 0)
    => (sizing.width >= 1 /\ sizing.height >= 1)

(* the options a call works with: { ...DEFAULT_OPTIONS, ...options } *)
EffectiveOptions(h) == MergeOptions(h.options)

(* call j came before call k for the same url and both returned a success *)
BothSucceeded(j, k) ==
  /\ j < k
  /\ history[j].url = history[k].url
  /\ history[j].returned.success
  /\ history[k].returned.success

(* C36: two resizeImage calls for the same url whose effective options     *)
(* differ in maxWidth, maxHeight, format or quality never share a cache    *)
(* entry: the later call is not handed the Blob URL made for the earlier.  *)
C36_DistinctOptionsDistinctEntries ==
  \A j, k \in 1..Len(history) :
    (BothSucceeded(j, k) /\ EffectiveOptions(history[j]) # EffectiveOptions(history[k]))
      => history[k].returned.url # history[j].returned.url

(* call j failed, and call k is the next one, with the same url and options *)
RetryOfFailure(j, k) ==
  /\ k = j + 1
  /\ history[j].url = history[k].url
  /\ history[j].options = history[k].options
  /\ ~history[j].returned.success

(* C38: only results with success = true are stored in the cache; a call   *)
(* that fails returns success = false with an error message, no blob and   *)
(* fromCache = false, and the next call with the same url and options       *)
(* fetches again.                                                          *)
C38_FailuresNotCached ==
  /\ \A key \in DOMAIN cache : cache[key].success
  /\ \A k \in 1..Len(history) :
       ~history[k].returned.success
         => /\ ~history[k].returned.error.null
            /\ history[k].returned.blob = NullBlob
            /\ ~history[k].returned.fromCache
            /\ history[k].work > 0
  /\ \A j, k \in 1..Len(history) :
       RetryOfFailure(j, k)
         => /\ history[k].work > 0
            /\ ~history[k].returned.fromCache

(* C38 witness: missing.png answered 404 twice, fetched both times, and    *)
(* the cache holds nothing                                                 *)
C38_Witness ==
  /\ Len(history) = 2
  /\ RetryOfFailure(1, 2)
  /\ history[1].url = "missing.png"
  /\ history[1].returned.error = Err("HTTP 404 Not Found")
  /\ history[2].returned.error = Err("HTTP 404 Not Found")
  /\ effects.fetch = 2
  /\ cache = EmptyCache

(* the Blob URLs URL.createObjectURL has handed out so far *)
CreatedUrls(e) == 1..e.createObjectURL

(* C37: when clearCache() returns while no resizeImage call is in flight,  *)
(* the cache is empty and every Blob URL created by the earlier successful *)
(* calls has been revoked, also when two calls for the same url and        *)
(* options ran at the same time and both missed the cache.                 *)
C37_ClearCacheRevokesAll ==
  [][(effects'.clearCache = effects.clearCache + 1 /\ NoResizeInFlight)
       => (/\ cache' = EmptyCache
           /\ CreatedUrls(effects') \subseteq effects'.revoked)]_vars

(* the pcs at which a call waits for the promise of loadPiexif *)
LoadPiexifPcs == {"heicLoadPiexif", "loadPiexif"}

(* C31: across sequential or overlapping cleanupExifFromFile calls the     *)
(* import in loadPiexif is started at most once, exactly when the memo is  *)
(* first set; a call that arrives while the import is pending waits for    *)
(* the same promise and starts no second import.                           *)
C31_ImportStartedOnce ==
  /\ imports <= 1
  /\ imports = 0 <=> piexifLoaded = "null"
  /\ (pc \in LoadPiexifPcs \/ parked.pc \in LoadPiexifPcs) => imports = 1

(* C31 witness: both calls wait for the one pending import *)
C31_Witness ==
  /\ piexifLoaded = "pending"
  /\ pc \in LoadPiexifPcs
  /\ parked.pc \in LoadPiexifPcs
  /\ hook.calls = 2
  /\ imports = 1

(* the error the outer catch block records when loadPiexif() rejects *)
LoadFailure == Err(ErrorMessage(PiexifLoadError))

(* the two calls of the hook: the running one and the parked one *)
BothCalls == {Frame, parked}

(* the call is over *)
Over(frame) == frame.pc \in {"done", "settled"}

(* the call needs the codec: its file is a HEIC or a JPEG *)
NeedsPiexif(frame) == isHeicFormat(frame.file) \/ isJpegFormat(frame.file)

(* C32: once a call has failed because the import in loadPiexif failed,    *)
(* the rejected promise stays memoized and the import is not started       *)
(* again: every JPEG or HEIC call that is over has success = false and     *)
(* returns its own input file.                                             *)
C32_FailureMemoized ==
  (\E failed \in BothCalls : Over(failed) /\ failed.result.error = LoadFailure)
    => /\ piexifLoaded = "rejected"
       /\ imports = 1
       /\ \A frame \in BothCalls :
            (Over(frame) /\ NeedsPiexif(frame))
              => /\ ~frame.result.success
                 /\ frame.result.file = frame.file
                 /\ frame.result.blob = frame.file

(* C32 witness: the first call, a JPEG, failed on the import and is over;  *)
(* the second, a HEIC that came after it, was decoded and failed on the    *)
(* memoized rejection                                                      *)
C32_Witness ==
  /\ hook.peak = 1
  /\ pc = "settled"
  /\ parked.pc = "settled"
  /\ isHeicFormat(file)
  /\ isJpegFormat(parked.file)
  /\ result.error = LoadFailure
  /\ parked.result.error = LoadFailure
  /\ ~result.success
  /\ dataURL # NoData
  /\ piexifLoaded = "rejected"
  /\ imports = 1

====
